---- MODULE Spec2Model ----
(***************************************************************************)
(* RetroPiskel: console profiles, the console-mode registry, the colour    *)
(* quantizers, the Morton twiddler and the tile/palette export             *)
(* controllers, as state machines and operators translated from the        *)
(* JavaScript sources.                                                     *)
(*                                                                         *)
(* Specifications:                                                         *)
(*   SpecQuantize  per-channel quantization of the arithmetic colour spaces*)
(*   SpecMorton    mortonCode / deinterleaveEven / deinterleaveOdd         *)
(*   SpecValidate  ConsoleMode.validateColors / NESMode.validateColors     *)
(*   SpecRegistry  ConsoleModeRegistry (register, init, setActiveMode)     *)
(*   SpecExport    drawing, colour-list updates and the export controllers *)
(*   SpecTwiddle   twiddlePixels (twiddleSquare / twiddleRectangular)      *)
(*   SpecDims      validateDimensions of the texture profile               *)
(*   SpecEncode    getColorIndex_ / encodeTile_ / generate...Data_         *)
(*   SpecPalette   validateAndDisplay_ (colorMap) of the tile controllers  *)
(*   SpecPaletteData  generatePaletteData_ of the palette writers          *)
(*   SpecLookup    lookups in the fixed palettes (NES, GB, MSX1, SMS)      *)
(*   SpecPacked    packed 4bpp encodeTile_ (Genesis, SMS, GBA)             *)
(*   SpecBoth      "download both" and its deferred palette download       *)
(*   SpecPanel     open/close cycles of the export panel ($.subscribe)     *)
(*   SpecColors    the colour pickers and the replace-color dialog         *)
(***************************************************************************)
EXTENDS Integers, Sequences, FiniteSets, TLC

VARIABLES
  call,           \* pure functions: the call under examination (a record)
  ret,            \* pure functions: its result, or Pending before the call
  modes_,         \* ConsoleModeRegistry.modes_: id -> registered mode object
  activeMode_,    \* ConsoleModeRegistry.activeMode_ (NoMode = null)
  savedModeId,    \* UserSettings value stored under CONSOLE_MODE
  settingsBound,  \* registry subscribed to USER_SETTINGS_CHANGED (init ran)
  published,      \* CONSOLE_MODE_CHANGED events published so far
  width,          \* piskelController.getWidth()
  height,         \* piskelController.getHeight()
  frames,         \* sequence of frames; a frame maps pixel index -> colour id
  currentColors,  \* currentColorsService.getCurrentColors()
  exporter,       \* the export controller that is initialised, or NoExporter
  colorMap,       \* controller.colorMap: colour int -> slot
  paletteColors,  \* controller.paletteColors
  buttonDisabled, \* disabled attribute of the controller's download button
  handoff,        \* what the running click handler gave to downloadAsFile
  timers,         \* callbacks given to setTimeout that have not run yet
  subscribers,    \* handlers registered with $.subscribe, oldest first
  panel,          \* the ExportController instance that is open (0 = none)
  selected,       \* selectedColorsService: primary and secondary colour
  dialog,         \* the ReplaceColorController on display, or NoDialog
  trace           \* calls seen at the boundary: downloads, dialog callbacks

pureVars     == <<call, ret>>
registryVars == <<modes_, activeMode_, savedModeId, settingsBound, published>>
spriteVars   == <<width, height, frames, currentColors>>
exportVars   == <<exporter, colorMap, paletteColors, buttonDisabled, handoff>>
uiVars       == <<timers, subscribers, panel, selected, dialog, trace>>
vars == <<call, ret, modes_, activeMode_, savedModeId, settingsBound,
          published, width, height, frames, currentColors, exporter,
          colorMap, paletteColors, buttonDisabled, handoff, timers,
          subscribers, panel, selected, dialog, trace>>

Pending    == [op |-> "pending"]
NoMode     == <<>>
NoExporter == "none"
NoDialog   == [open |-> FALSE]

(***************************************************************************)
(* JavaScript integer helpers.                                             *)
(***************************************************************************)

\* Math.round on a non-negative rational num/den (round half up).
MathRound(num, den) == (2 * num + den) \div (2 * den)

RECURSIVE BitAnd1(_, _)
BitAnd1(a, b) ==
  IF a = 0 \/ b = 0 THEN 0
  ELSE (a % 2) * (b % 2) + 2 * BitAnd1(a \div 2, b \div 2)

RECURSIVE BitOr1(_, _)
BitOr1(a, b) ==
  IF a = 0 THEN b
  ELSE IF b = 0 THEN a
  ELSE (IF (a % 2) + (b % 2) > 0 THEN 1 ELSE 0)
       + 2 * BitOr1(a \div 2, b \div 2)

\* Byte-wide tables of the two operators, so that a 32-bit operation takes
\* at most four steps.
AndTab == [a \in 0..255 |-> [b \in 0..255 |-> BitAnd1(a, b)]]
OrTab  == [a \in 0..255 |-> [b \in 0..255 |-> BitOr1(a, b)]]

\* a & b on non-negative 32-bit operands.
RECURSIVE BitAnd(_, _)
BitAnd(a, b) ==
  IF a = 0 \/ b = 0 THEN 0
  ELSE AndTab[a % 256][b % 256] + 256 * BitAnd(a \div 256, b \div 256)

\* a | b on non-negative 32-bit operands.
RECURSIVE BitOr(_, _)
BitOr(a, b) ==
  IF a = 0 THEN b
  ELSE IF b = 0 THEN a
  ELSE OrTab[a % 256][b % 256] + 256 * BitOr(a \div 256, b \div 256)

\* A sequence / a function with all its elements computed once.
Seq1(s) == s \o <<>>
Fun1(f) == f @@ <<>>

\* a << k and a >> k; every operand of the model stays below 2^31.
Shl(a, k) == a * (2 ^ k)
Shr(a, k) == a \div (2 ^ k)

(***************************************************************************)
(* Colour quantization (SNES/GBC/GBA rgb555, Genesis/MSX2+ rgb333,         *)
(* Game Gear rgb444).                                                      *)
(***************************************************************************)

\* SNESConsoleMode.to5Bit
to5Bit(value8bit) == MathRound(value8bit * 31, 255)

\* snapTo5Bit with the 5-bit value truncated (Math.floor) instead of rounded.
snapTo5Bit_floor(value8bit) ==
  LET value5bit == (value8bit * 31) \div 255
  IN  MathRound(value5bit * 255, 31)

\* SNESConsoleMode.snapTo5Bit
snapTo5Bit(value8bit) ==
  LET value5bit == MathRound(value8bit * 31, 255)
  IN  MathRound(value5bit * 255, 31)

\* GenesisConsoleMode.to3Bit
to3Bit(value8bit) == MathRound(value8bit * 7, 255)

\* GenesisConsoleMode.snapTo3Bit
snapTo3Bit(value8bit) ==
  LET value3bit == MathRound(value8bit * 7, 255)
  IN  MathRound(value3bit * 255, 7)

\* SNESConsoleMode.snapColorToRGB555 on an <<r, g, b>> colour.
snapColorToRGB555(rgb) ==
  <<snapTo5Bit(rgb[1]), snapTo5Bit(rgb[2]), snapTo5Bit(rgb[3])>>

\* GenesisConsoleMode.snapColorToRGB333 on an <<r, g, b>> colour.
snapColorToRGB333(rgb) ==
  <<snapTo3Bit(rgb[1]), snapTo3Bit(rgb[2]), snapTo3Bit(rgb[3])>>

\* GameGearConsoleMode.colorToCRAMBytes: <<lowByte, highByte>>.
ggColorToCRAMBytes(rgb) ==
  LET r4 == MathRound(rgb[1] * 15, 255)
      g4 == MathRound(rgb[2] * 15, 255)
      b4 == MathRound(rgb[3] * 15, 255)
  IN  <<BitOr(Shl(g4, 4), r4), b4>>

\* GameGearConsoleMode.cramToColor
ggCramToColor(lowByte, highByte) ==
  LET r4 == BitAnd(lowByte, 15)
      g4 == BitAnd(Shr(lowByte, 4), 15)
      b4 == BitAnd(highByte, 15)
  IN  <<MathRound(r4 * 255, 15), MathRound(g4 * 255, 15),
        MathRound(b4 * 255, 15)>>

\* GameGearConsoleMode.quantizeColor
ggQuantizeColor(rgb) ==
  LET cramBytes == ggColorToCRAMBytes(rgb)
  IN  ggCramToColor(cramBytes[1], cramBytes[2])

ColorSpaces == {"rgb555", "rgb333", "rgb444"}

\* The quantizer of each arithmetic colour space.
quantize(space, rgb) ==
  CASE space = "rgb555" -> snapColorToRGB555(rgb)
    [] space = "rgb333" -> snapColorToRGB333(rgb)
    [] space = "rgb444" -> ggQuantizeColor(rgb)

\* The closed form the specification gives for one channel.
SnapFormula(bits, v) ==
  LET top == (2 ^ bits) - 1
  IN  MathRound(MathRound(v * top, 255) * 255, top)

BitsOf(space) ==
  CASE space = "rgb555" -> 5
    [] space = "rgb333" -> 3
    [] space = "rgb444" -> 4

\* The three channels sweep 0..255 at different phases.
ChannelPhase == 85
QuantizeInputs ==
  { <<v, (v + ChannelPhase) % 256, (v + 2 * ChannelPhase) % 256>> :
      v \in 0..255 }

(***************************************************************************)
(* Twiddler (DreamcastConsoleMode).                                        *)
(***************************************************************************)

MAX_DIMENSION == 1024

\* DreamcastConsoleMode.spreadBits
spreadBits(n0) ==
  LET n1 == BitAnd(BitOr(n0, Shl(n0, 8)), 16711935)       \* 0x00FF00FF
      n2 == BitAnd(BitOr(n1, Shl(n1, 4)), 252645135)      \* 0x0F0F0F0F
      n3 == BitAnd(BitOr(n2, Shl(n2, 2)), 858993459)      \* 0x33333333
      n4 == BitAnd(BitOr(n3, Shl(n3, 1)), 1431655765)     \* 0x55555555
  IN  n4

\* mortonCode with the bits of y left on the even positions (no << 1).
mortonCode_noShift(x, y) == BitOr(spreadBits(x), spreadBits(y))

\* DreamcastConsoleMode.mortonCode
mortonCode(x, y) == BitOr(spreadBits(x), Shl(spreadBits(y), 1))

\* deinterleaveEven with the last mask one byte short (0x000000FF).
deinterleaveEven_mask8(n0) ==
  LET n1 == BitAnd(n0, 1431655765)
      n2 == BitAnd(BitOr(n1, Shr(n1, 1)), 858993459)
      n3 == BitAnd(BitOr(n2, Shr(n2, 2)), 252645135)
      n4 == BitAnd(BitOr(n3, Shr(n3, 4)), 16711935)
      n5 == BitAnd(BitOr(n4, Shr(n4, 8)), 255)
  IN  n5

\* DreamcastConsoleMode.deinterleaveEven
deinterleaveEven(n0) ==
  LET n1 == BitAnd(n0, 1431655765)                        \* 0x55555555
      n2 == BitAnd(BitOr(n1, Shr(n1, 1)), 858993459)      \* 0x33333333
      n3 == BitAnd(BitOr(n2, Shr(n2, 2)), 252645135)      \* 0x0F0F0F0F
      n4 == BitAnd(BitOr(n3, Shr(n3, 4)), 16711935)       \* 0x00FF00FF
      n5 == BitAnd(BitOr(n4, Shr(n4, 8)), 65535)          \* 0x0000FFFF
  IN  n5

\* DreamcastConsoleMode.deinterleaveOdd
deinterleaveOdd(n) == deinterleaveEven(Shr(n, 1))

(***************************************************************************)
(* Console profiles (ConsoleMode and its subclasses).                      *)
(***************************************************************************)

Unlimited == 0   \* maxColors: null (config.maxColors || null)
NoTile    == 0   \* tileSize: null

\* The configuration each create...Mode() passes to the ConsoleMode
\* constructor: maxColors and tileSize.
ModeConfig ==
  [ default   |-> [maxColors |-> Unlimited, tileSize |-> NoTile],
    nes       |-> [maxColors |-> 3,   tileSize |-> 8],
    gameboy   |-> [maxColors |-> 3,   tileSize |-> 8],
    gbc       |-> [maxColors |-> 3,   tileSize |-> 8],
    gba       |-> [maxColors |-> 15,  tileSize |-> 8],
    gba8bpp   |-> [maxColors |-> 255, tileSize |-> 8],
    snes      |-> [maxColors |-> 15,  tileSize |-> 8],
    genesis   |-> [maxColors |-> 15,  tileSize |-> 8],
    sms       |-> [maxColors |-> 15,  tileSize |-> 8],
    gamegear  |-> [maxColors |-> 15,  tileSize |-> 8],
    msx       |-> [maxColors |-> 1,   tileSize |-> 8],
    msx2plus  |-> [maxColors |-> 15,  tileSize |-> 8],
    dreamcast |-> [maxColors |-> Unlimited, tileSize |-> NoTile] ]

ModeIds == DOMAIN ModeConfig
FiniteModeIds == { m \in ModeIds : ModeConfig[m].maxColors # Unlimited }

\* Constants.TRANSPARENT_COLOR / 'rgba(0, 0, 0, 0)' as a colour-list entry;
\* every other entry is a positive colour id.
TRANSPARENT_COLOR == 0

\* pskl.nes.NESColors.MAX_SPRITE_COLORS
NES_MAX_SPRITE_COLORS == 3

\* validateColors with an exclusive bound (count < maxColors).
validateColors_exclusive(modeId, colors) ==
  LET maxColors == ModeConfig[modeId].maxColors IN
  IF maxColors = Unlimited
  THEN [valid |-> TRUE, message |-> <<>>, count |-> Len(colors)]
  ELSE
    LET nonTransparent == SelectSeq(colors, LAMBDA c : c # TRANSPARENT_COLOR)
        count == Len(nonTransparent)
    IN  IF count < maxColors
        THEN [valid |-> TRUE, message |-> <<>>, count |-> count]
        ELSE [valid |-> FALSE, message |-> <<modeId, maxColors, count>>,
              count |-> count]

\* ConsoleMode.prototype.validateColors
validateColors(modeId, colors) ==
  LET maxColors == ModeConfig[modeId].maxColors IN
  IF maxColors = Unlimited
  THEN [valid |-> TRUE, message |-> <<>>, count |-> Len(colors)]
  ELSE
    LET nonTransparent == SelectSeq(colors, LAMBDA c : c # TRANSPARENT_COLOR)
        count == Len(nonTransparent)
    IN  IF count <= maxColors
        THEN [valid |-> TRUE, message |-> <<>>, count |-> count]
        ELSE [valid |-> FALSE, message |-> <<modeId, maxColors, count>>,
              count |-> count]

\* NESMode.prototype.validateColors (the legacy NES mode service)
nesValidateColors(colors) ==
  LET nonTransparent == SelectSeq(colors, LAMBDA c : c # TRANSPARENT_COLOR)
      max == NES_MAX_SPRITE_COLORS
      count == Len(nonTransparent)
  IN  IF count <= max
      THEN [valid |-> TRUE, message |-> <<>>, count |-> count]
      ELSE [valid |-> FALSE, message |-> <<"NES", max, count>>,
            count |-> count]

\* The profiles validateColors is examined for; "nesmode" is NESMode.
ValidatorIds == ModeIds \cup {"nesmode"}

Validate(v, colors) ==
  IF v = "nesmode" THEN nesValidateColors(colors)
  ELSE validateColors(v, colors)

MaxColorsOf(v) ==
  IF v = "nesmode" THEN NES_MAX_SPRITE_COLORS ELSE ModeConfig[v].maxColors

\* Colour lists handed to validateColors: n distinct opaque colours, with
\* the transparency sentinel in front, at the back, at both ends or absent.
MaxListColors == 17
ListSizes ==
  (0..MaxListColors)
    \cup { MaxColorsOf(v) + d : v \in FiniteModeIds, d \in {0, 1} }
SentinelPlaces == {"none", "front", "back", "both"}

ColorList(n, place) ==
  LET opaque == [i \in 1..n |-> i]
      t == <<TRANSPARENT_COLOR>>
  IN  CASE place = "none"  -> opaque
        [] place = "front" -> t \o opaque
        [] place = "back"  -> opaque \o t
        [] place = "both"  -> t \o opaque \o t

\* Number of entries of a list that are not the transparency sentinel.
OpaqueCount(colors) ==
  Cardinality({ i \in 1..Len(colors) : colors[i] # TRANSPARENT_COLOR })

(***************************************************************************)
(* ConsoleModeRegistry.                                                    *)
(*                                                                         *)
(* A registered mode object is <<id, version>>: registering a second       *)
(* object under an id that is taken replaces the entry of modes_, and the  *)
(* version tells the two objects apart (=== on objects).                   *)
(***************************************************************************)

RegistryIds      == {"default", "nes", "genesis"}
UnknownId        == "bogus"
NoSetting        == "unset"
MaxVersions      == 2     \* objects registered per id
MaxInitCalls     == 2     \* calls of ConsoleModeRegistry.init
MaxPublished     == 3     \* CONSOLE_MODE_CHANGED events kept in the log

SettingValues == RegistryIds \cup {UnknownId, NoSetting}

\* The registry fields as one record, for the handlers that call each other.
Registry ==
  [modes |-> modes_, active |-> activeMode_, saved |-> savedModeId,
   bound |-> settingsBound, log |-> published]

\* this.modes_[id] (NoMode when undefined)
ModeAt(reg, id) ==
  IF id \in RegistryIds /\ reg.modes[id] > 0
  THEN <<id, reg.modes[id]>>
  ELSE NoMode

RECURSIVE setActiveMode(_, _, _)
RECURSIVE UserSettingsSet(_, _, _)

\* pskl.UserSettings.set(CONSOLE_MODE, value): stores the value and
\* publishes USER_SETTINGS_CHANGED, which every bound
\* ConsoleModeRegistry.onSettingsChange_ handles with setActiveMode(value).
UserSettingsSet(reg, value, handlers) ==
  IF handlers = 0 THEN [reg EXCEPT !.saved = value]
  ELSE setActiveMode(UserSettingsSet(reg, value, handlers - 1), value, FALSE)

\* setActiveMode that assigns activeMode_ before it tests for an unknown id.
setActiveMode_assignFirst(reg, modeId, skipSave) ==
  LET newMode == ModeAt(reg, modeId)
      previousMode == reg.active
  IN  IF newMode = NoMode THEN [reg EXCEPT !.active = NoMode]
      ELSE IF previousMode = newMode THEN reg
      ELSE
        LET r1 == [reg EXCEPT !.active = newMode]
            r2 == IF skipSave THEN r1
                  ELSE UserSettingsSet(r1, modeId, r1.bound)
        IN  [r2 EXCEPT !.log = Append(@, [previous |-> previousMode,
                                          current  |-> newMode])]

\* setActiveMode that stores the id it was given before it looks the
\* mode up (without an event to the settings handlers).
setActiveMode_saveUnknown(reg, modeId, skipSave) ==
  LET newMode == ModeAt(reg, modeId)
      previousMode == reg.active
  IN  IF newMode = NoMode THEN [reg EXCEPT !.saved = modeId]
      ELSE IF previousMode = newMode THEN reg
      ELSE
        LET r1 == [reg EXCEPT !.active = newMode]
            r2 == IF skipSave THEN r1
                  ELSE UserSettingsSet(r1, modeId, r1.bound)
        IN  [r2 EXCEPT !.log = Append(@, [previous |-> previousMode,
                                          current  |-> newMode])]

\* setActiveMode that reads this.activeMode_ for the event's previous
\* field when it publishes, after the assignment.
setActiveMode_previousRead(reg, modeId, skipSave) ==
  LET newMode == ModeAt(reg, modeId)
      previousMode == reg.active
  IN  IF newMode = NoMode THEN reg
      ELSE IF previousMode = newMode THEN reg
      ELSE
        LET r1 == [reg EXCEPT !.active = newMode]
            r2 == IF skipSave THEN r1
                  ELSE UserSettingsSet(r1, modeId, r1.bound)
        IN  [r2 EXCEPT !.log = Append(@, [previous |-> r2.active,
                                          current  |-> newMode])]

\* ConsoleModeRegistry.prototype.setActiveMode
setActiveMode(reg, modeId, skipSave) ==
  LET newMode == ModeAt(reg, modeId)
      previousMode == reg.active
  IN  IF newMode = NoMode THEN reg
      ELSE IF previousMode = newMode THEN reg
      ELSE
        LET r1 == [reg EXCEPT !.active = newMode]
            r2 == IF skipSave THEN r1
                  ELSE UserSettingsSet(r1, modeId, r1.bound)
        IN  [r2 EXCEPT !.log = Append(@, [previous |-> previousMode,
                                          current  |-> newMode])]

\* ConsoleModeRegistry.prototype.init
registryInit(reg) ==
  LET savedModeId0 == reg.saved
      r1 == IF savedModeId0 # NoSetting /\ ModeAt(reg, savedModeId0) # NoMode
            THEN setActiveMode(reg, savedModeId0, TRUE)
            ELSE IF ModeAt(reg, "default") # NoMode
                 THEN setActiveMode(reg, "default", TRUE)
                 ELSE reg
  IN  [r1 EXCEPT !.bound = @ + 1]

\* ConsoleModeRegistry.prototype.register (with a ConsoleMode instance)
register(reg, id) == [reg EXCEPT !.modes[id] = @ + 1]

\* ConsoleModeRegistry.prototype.getActive
getActive == activeMode_

\* Ids with an entry in modes_ (getRegisteredIds).
getRegisteredIds == { id \in RegistryIds : modes_[id] > 0 }

StoreRegistry(reg) ==
  /\ modes_' = reg.modes
  /\ activeMode_' = reg.active
  /\ savedModeId' = reg.saved
  /\ settingsBound' = reg.bound
  /\ published' = reg.log

\* new ConsoleModeRegistry(): no mode registered, none active.
InitRegistryFields ==
  /\ modes_ = [id \in RegistryIds |-> 0]
  /\ activeMode_ = NoMode
  /\ settingsBound = 0
  /\ published = <<>>

Register(id) ==
  /\ modes_[id] < MaxVersions
  /\ StoreRegistry(register(Registry, id))
  /\ UNCHANGED <<uiVars, pureVars, spriteVars, exportVars>>

RegistryInit ==
  /\ settingsBound < MaxInitCalls
  /\ Len(published) < MaxPublished
  /\ StoreRegistry(registryInit(Registry))
  /\ UNCHANGED <<uiVars, pureVars, spriteVars, exportVars>>

SetActiveMode(id, skipSave) ==
  /\ Len(published) < MaxPublished
  /\ StoreRegistry(setActiveMode(Registry, id, skipSave))
  /\ UNCHANGED <<uiVars, pureVars, spriteVars, exportVars>>

\* MiscPreferencesController.onConsoleModeChange_ (confirmed by the user).
OnConsoleModeChange(newModeId) ==
  /\ Len(published) < MaxPublished
  /\ newModeId # savedModeId
  /\ StoreRegistry(UserSettingsSet(Registry, newModeId, settingsBound))
  /\ UNCHANGED <<uiVars, pureVars, spriteVars, exportVars>>

(***************************************************************************)
(* Sprite, colours and rendered pixel buffers.                             *)
(*                                                                         *)
(* A colour id c >= 1 stands for the hex colour ColorRGB(c); 0 is a        *)
(* transparent pixel.  Ids 1..4 are the four Game Boy DMG shades.          *)
(***************************************************************************)

NumColors == 21
ColorIds  == 1..NumColors

\* GB_PALETTE_DATA: colour -> shade
GB_PALETTE_DATA ==
  << [color |-> <<155, 188, 15>>, shade |-> 0],    \* #9BBC0F
     [color |-> <<139, 172, 15>>, shade |-> 1],    \* #8BAC0F
     [color |-> <<48, 98, 48>>,   shade |-> 2],    \* #306230
     [color |-> <<15, 56, 15>>,   shade |-> 3] >>  \* #0F380F

\* The hex colour of a colour id, as <<r, g, b>>.
ColorRGB(c) ==
  IF c <= 4 THEN GB_PALETTE_DATA[c].color
  ELSE <<(c * 15) % 256, 255 - c * 8, c>>

\* A hex colour string '#RRGGBB': its three channels and whether its
\* letters are written in upper case.
Hex(rgb, upper) == [rgb |-> rgb, upper |-> upper]

\* String.prototype.toUpperCase on a hex colour string.
toUpperCase(hex) == [hex EXCEPT !.upper = TRUE]

\* A table read that finds nothing (undefined, reported as null).
NoEntry == -1

\* COLOR_TO_...[hexColor.toUpperCase()]: the table is keyed by the upper
\* case colour of each entry, a later entry of the same colour replacing
\* an earlier one.  Color and Value read the two fields of an entry.
TableValue(T, Color(_), Value(_), hex) ==
  LET hits == { i \in 1..Len(T) :
                  toUpperCase(Hex(Color(T[i]), TRUE)) = toUpperCase(hex) }
  IN  IF hits = {} THEN NoEntry
      ELSE Value(T[CHOOSE i \in hits : \A j \in hits : j <= i])

NoShade == -1

\* GameBoyConsoleMode.prototype.getShadeForColor (null = NoShade)
getShadeForColor(hex) ==
  TableValue(GB_PALETTE_DATA, LAMBDA en : en.color, LAMBDA en : en.shade, hex)

\* A 32-bit colour int 0xAABBGGRR, kept as <<alpha byte, low 24 bits>>.
ColorInt(r, g, b, a) == <<a, Shl(b, 16) + Shl(g, 8) + r>>

\* pskl.utils.colorToInt on an opaque hex colour.
colorToInt(rgb) == ColorInt(rgb[1], rgb[2], rgb[3], 255)

\* The key 0 the controllers store for transparency (this.colorMap[0] = 0).
ZeroKey == <<0, 0>>

\* What a read past the end of the image data yields (undefined).
Undefined == <<-1, -1, -1, -1>>

\* imgData.data of a rendered frame, read at pixel index p:
\* r, g, b, a of pixel p, or undefined past the end of the buffer.
PixelAt(frame, w, h, p) ==
  IF p >= w * h THEN Undefined
  ELSE IF frame[p] = 0 THEN <<0, 0, 0, 0>>
  ELSE LET rgb == ColorRGB(frame[p]) IN <<rgb[1], rgb[2], rgb[3], 255>>

\* A pixel counts as opaque from alpha 128 on.
IsOpaque(px) == px # Undefined /\ px[4] >= 128

(***************************************************************************)
(* Tile encoders.                                                          *)
(***************************************************************************)

\* getColorIndex_ with the threshold one lower (a < 127).
getColorIndex_below127(map, px) ==
  IF px # Undefined /\ px[4] < 127 THEN [slot |-> 0, warned |-> FALSE]
  ELSE
    LET known == px # Undefined
                 /\ ColorInt(px[1], px[2], px[3], 255) \in DOMAIN map
    IN  IF known
        THEN [slot |-> map[ColorInt(px[1], px[2], px[3], 255)],
              warned |-> FALSE]
        ELSE [slot |-> 1, warned |-> TRUE]

\* getColorIndex_ that returns slot 0 for a colour the map does not hold.
getColorIndex_missZero(map, px) ==
  IF px # Undefined /\ px[4] < 128 THEN [slot |-> 0, warned |-> FALSE]
  ELSE
    LET known == px # Undefined
                 /\ ColorInt(px[1], px[2], px[3], 255) \in DOMAIN map
    IN  IF known
        THEN [slot |-> map[ColorInt(px[1], px[2], px[3], 255)],
              warned |-> FALSE]
        ELSE [slot |-> 0, warned |-> TRUE]

\* <Controller>.prototype.getColorIndex_ / getShadeIndex_: the slot of a
\* pixel and whether the unmapped-colour warning was logged.  An undefined
\* alpha is not below 128 and an undefined channel makes the key NaN.
getColorIndex_(map, px) ==
  IF px # Undefined /\ px[4] < 128 THEN [slot |-> 0, warned |-> FALSE]
  ELSE
    LET known == px # Undefined
                 /\ ColorInt(px[1], px[2], px[3], 255) \in DOMAIN map
    IN  IF known
        THEN [slot |-> map[ColorInt(px[1], px[2], px[3], 255)],
              warned |-> FALSE]
        ELSE [slot |-> 1, warned |-> TRUE]

\* The pixels of the 8x8 tile at (startX, startY), row by row, as the
\* encoders index them: idx = (py * imgWidth + px) * 4.
TilePixels(frame, w, h, startX, startY) ==
  Seq1([k \in 1..64 |->
     LET y == (k - 1) \div 8
         x == (k - 1) % 8
     IN  PixelAt(frame, w, h, (startY + y) * w + (startX + x))])

\* Msx1bppExportController.prototype.encodeTile_, per pixel:
\* isSet = pixels[idx + 3] >= 128 (false for an undefined alpha); the
\* controller keeps no colorMap and logs nothing.
msxIsSet(px) ==
  [slot |-> IF px # Undefined /\ px[4] >= 128 THEN 1 ELSE 0,
   warned |-> FALSE]

\* The per-pixel rule of encoder e.
LookupOf(e, map, px) ==
  IF e = "msx1bpp" THEN msxIsSet(px) ELSE getColorIndex_(map, px)

\* The 64 colour indexes of a tile, row by row.
TileLookups(e, map, tilePx) ==
  Seq1([k \in 1..64 |-> LookupOf(e, map, tilePx[k])])

\* Bit b of n.
BitOf(n, b) == BitAnd(Shr(n, b), 1)

\* byte |= (bit << (7 - x)) over the eight pixels of tile row y.
RECURSIVE RowPlane(_, _, _, _)
RowPlane(slots, y, plane, x) ==
  IF x = 8 THEN 0
  ELSE BitOr(Shl(BitOf(slots[y * 8 + x + 1], plane), 7 - x),
             RowPlane(slots, y, plane, x + 1))

\* Genesis4bppExportController.prototype.encodeTile_ (32 bytes):
\* byte = (colorIndex0 << 4) | colorIndex1 per pixel pair.
genesisEncodeTile_(slots) ==
  [k \in 1..32 |->
     LET y == (k - 1) \div 4
         xPair == (k - 1) % 4
     IN  BitOr(Shl(slots[y * 8 + xPair * 2 + 1], 4),
               slots[y * 8 + xPair * 2 + 2])]

\* Sms4bppExportController.prototype.encodeTile_ (32 bytes): the same packing,
\* tile[tileIndex++] = (colorIndex0 << 4) | colorIndex1 into a Uint8Array.
smsEncodeTile_(slots) ==
  [k \in 1..32 |->
     LET y == (k - 1) \div 4
         xPair == (k - 1) % 4
     IN  BitOr(Shl(slots[y * 8 + xPair * 2 + 1], 4),
               slots[y * 8 + xPair * 2 + 2]) % 256]

\* gbaEncodeTile_ with the left pixel in the high nibble, as the Genesis
\* encoder packs it.
gbaEncodeTile_highFirst(slots) ==
  [k \in 1..32 |->
     LET y == (k - 1) \div 4
         x == 2 * ((k - 1) % 4)
     IN  BitOr(Shl(slots[y * 8 + x + 1], 4), slots[y * 8 + x + 2]) % 256]

\* Gba4bppExportController.prototype.encodeTile_ (32 bytes):
\* tile[byteIdx++] = (colorIdx1 << 4) | colorIdx0, left pixel in the low
\* nibble.
gbaEncodeTile_(slots) ==
  [k \in 1..32 |->
     LET y == (k - 1) \div 4
         x == 2 * ((k - 1) % 4)
     IN  BitOr(Shl(slots[y * 8 + x + 2], 4), slots[y * 8 + x + 1]) % 256]

\* Snes4bppExportController.prototype.encodeTile_ (32 bytes): bitplanes 0
\* and 1 interleaved row by row, then bitplanes 2 and 3.
snesEncodeTile_(slots) ==
  [k \in 1..32 |->
     IF k <= 16 THEN RowPlane(slots, (k - 1) \div 2, (k - 1) % 2, 0)
     ELSE RowPlane(slots, (k - 17) \div 2, 2 + ((k - 17) % 2), 0)]

\* Msx1bppExportController.prototype.encodeTile_ (8 bytes): one byte per
\* row, a bit per pixel that is set.
msxEncodeTile_(slots) ==
  [k \in 1..8 |-> RowPlane(slots, k - 1, 0, 0)]

\* chrEncodeTile_ that appends a third channel (bit 2 of each row).
chrEncodeTile_threeChannels(slots) ==
  [k \in 1..24 |->
     IF k <= 8 THEN RowPlane(slots, k - 1, 0, 0)
     ELSE IF k <= 16 THEN RowPlane(slots, k - 9, 1, 0)
     ELSE RowPlane(slots, k - 17, 2, 0)]

\* chrEncodeTile_ with the two channels exchanged: bit 1 first, then bit 0.
chrEncodeTile_planesSwapped(slots) ==
  [k \in 1..16 |->
     IF k <= 8 THEN RowPlane(slots, k - 1, 1, 0)
     ELSE RowPlane(slots, k - 9, 0, 0)]

\* ChrExportController.prototype.encodeTile_ (16 bytes):
\* channel1 (bit 0 of each row) followed by channel2 (bit 1 of each row).
chrEncodeTile_(slots) ==
  [k \in 1..16 |->
     IF k <= 8 THEN RowPlane(slots, k - 1, 0, 0)
     ELSE RowPlane(slots, k - 9, 1, 0)]

\* Gb2bppExportController / Gbc2bppExportController.prototype.encodeTile_
\* (16 bytes): low byte then high byte, row after row.
gbEncodeTile_(slots) ==
  [k \in 1..16 |->
     RowPlane(slots, (k - 1) \div 2, (k - 1) % 2, 0)]

TileExporters == {"chr", "gb2bpp", "gbc2bpp", "genesis4bpp"}
PaletteExporters == {"gbc2bpp", "genesis4bpp"}
Exporters == TileExporters \cup {"dreamcastpvr"}

\* Every controller that writes a palette file: the palette exporters of the
\* panel and the SMS, GBA, SNES and MSX2 4BPP controllers.
PaletteEncoders ==
  PaletteExporters \cup {"sms4bpp", "gba4bpp", "snes4bpp", "msx24bpp"}

\* Every controller with a tile encoder: the tile exporters of the panel,
\* the SNES 4BPP controller and the MSX1 1BPP controller.
Encoders == TileExporters \cup {"snes4bpp", "msx1bpp"}

\* Bytes per 8x8 tile of each tile encoder (byteIndex += ...).
BytesPerTile(e) ==
  CASE e \in {"genesis4bpp", "snes4bpp"} -> 32
    [] e = "msx1bpp"                      -> 8
    [] OTHER                              -> 16

\* The colour limit each controller applies (MAX_COLORS, or the literal 3).
MaxColors(e) ==
  CASE e \in {"genesis4bpp", "snes4bpp", "sms4bpp", "gba4bpp", "msx24bpp"}
                                         -> 15
    [] e = "msx1bpp"                      -> 1
    [] OTHER                              -> 3

encodeTile_(e, slots) ==
  CASE e = "genesis4bpp" -> genesisEncodeTile_(slots)
    [] e = "snes4bpp"    -> snesEncodeTile_(slots)
    [] e = "msx1bpp"     -> msxEncodeTile_(slots)
    [] e = "chr"         -> chrEncodeTile_(slots)
    [] OTHER             -> gbEncodeTile_(slots)

(***************************************************************************)
(* Export controllers: colour map, tile data and palette data.             *)
(***************************************************************************)

Min(a, b) == IF a < b THEN a ELSE b

\* consoleRegistry.get(id) is not null
HasMode(id) == id \in DOMAIN modes_ /\ modes_[id] > 0

\* The slot validateAndDisplay_ stores for colors[i] (i from 1):
\* i for the index-based controllers; the DMG shade, or else i, for gb2bpp.
SlotFor(e, colors, i) ==
  IF e = "gb2bpp"
  THEN LET shade == IF HasMode("gameboy")
                    THEN getShadeForColor(Hex(ColorRGB(colors[i]), TRUE))
                    ELSE NoShade
       IN  IF shade # NoShade THEN shade ELSE i
  ELSE i

\* BuildColorMap without the reset this.colorMap = {}: the entries of the
\* last validation stay unless the new list assigns their key again.
BuildColorMap_noReset(e, colors) ==
  LET n == Min(Len(colors), MaxColors(e))
      keys == {ZeroKey} \cup { colorToInt(ColorRGB(colors[i])) : i \in 1..n }
      Last(k) == CHOOSE i \in 1..n :
                   /\ colorToInt(ColorRGB(colors[i])) = k
                   /\ \A j \in 1..n :
                        colorToInt(ColorRGB(colors[j])) = k => j <= i
  IN  [k \in keys \cup DOMAIN colorMap |->
         IF k = ZeroKey THEN 0
         ELSE IF k \in keys THEN SlotFor(e, colors, Last(k))
         ELSE colorMap[k]]

\* The colorMap validateAndDisplay_ / updatePaletteSlots_ builds: key 0 for
\* transparency, then the first MaxColors(e) colours of the list in order,
\* a later assignment to a key replacing an earlier one.
BuildColorMap(e, colors) ==
  LET n == Min(Len(colors), MaxColors(e))
      keys == {ZeroKey} \cup { colorToInt(ColorRGB(colors[i])) : i \in 1..n }
      Last(k) == CHOOSE i \in 1..n :
                   /\ colorToInt(ColorRGB(colors[i])) = k
                   /\ \A j \in 1..n :
                        colorToInt(ColorRGB(colors[j])) = k => j <= i
  IN  Fun1([k \in keys |->
              IF k = ZeroKey THEN 0 ELSE SlotFor(e, colors, Last(k))])

\* Entries of paletteColors are hex colours, held as <<r, g, b>>.
Null  == <<>>          \* paletteColors[0] = null
Black == <<0, 0, 0>>   \* '#000000', the padding entry

\* Slots of the palette file of each palette exporter.
PaletteSlots(e) == IF e = "gbc2bpp" THEN 4 ELSE 16

\* Bytes of one palette entry: one CRAM byte for the Master System, two
\* bytes everywhere else.
BytesPerEntry(e) == IF e = "sms4bpp" THEN 1 ELSE 2

\* BuildPaletteColors that pads with '#FFFFFF' instead of '#000000'.
BuildPaletteColors_padWhite(e, colors) ==
  IF e \notin PaletteEncoders THEN <<>>
  ELSE LET n == Min(Len(colors), MaxColors(e))
       IN  [i \in 1..PaletteSlots(e) |->
              IF i = 1 THEN Null
              ELSE IF i - 1 <= n THEN ColorRGB(colors[i - 1])
              ELSE <<255, 255, 255>>]

\* this.paletteColors after validateAndDisplay_.
BuildPaletteColors(e, colors) ==
  IF e \notin PaletteEncoders THEN <<>>
  ELSE LET n == Min(Len(colors), MaxColors(e))
       IN  [i \in 1..PaletteSlots(e) |->
              IF i = 1 THEN Null
              ELSE IF i - 1 <= n THEN ColorRGB(colors[i - 1])
              ELSE Black]

\* ChrExportController.validateAndDisplay_: downloadBtn.disabled = !canExport.
\* The other controllers never disable their buttons.
ButtonDisabled(e, w, h, colors) ==
  IF e = "chr"
  THEN LET dimValid == w % 8 = 0 /\ h % 8 = 0
       IN  ~(dimValid /\ Len(colors) <= 3)
  ELSE FALSE

\* <Controller>.prototype.validateAndDisplay_
validateAndDisplay_(e, w, h, colors) ==
  [colorMap      |-> IF e \in TileExporters THEN BuildColorMap(e, colors)
                     ELSE <<>>,
   paletteColors |-> BuildPaletteColors(e, colors),
   disabled      |-> ButtonDisabled(e, w, h, colors)]

\* The concatenation of the sequences of ss, each n long.
Flatten(ss, n) ==
  Seq1([i \in 1..(Len(ss) * n) |->
          ss[((i - 1) \div n) + 1][((i - 1) % n) + 1]])

\* TileOrder with the two tile loops exchanged: tileX outside, tileY inside.
TileOrder_columnMajor(w, h, frameCount) ==
  LET tx == (w + 7) \div 8
      ty == (h + 7) \div 8
  IN  [k \in 1..(frameCount * tx * ty) |->
         [f     |-> ((k - 1) \div (tx * ty)) + 1,
          tileY |-> ((k - 1) % (tx * ty)) % ty,
          tileX |-> ((k - 1) % (tx * ty)) \div ty]]

\* The tiles the loops of generate...Data_ visit, in order: frames, then
\* tileY while tileY < height / 8, then tileX while tileX < width / 8.
TileOrder(w, h, frameCount) ==
  LET tx == (w + 7) \div 8
      ty == (h + 7) \div 8
  IN  [k \in 1..(frameCount * tx * ty) |->
         [f     |-> ((k - 1) \div (tx * ty)) + 1,
          tileY |-> ((k - 1) % (tx * ty)) \div tx,
          tileX |-> ((k - 1) % (tx * ty)) % tx]]

\* generate4bppData_ / generateChrData_ / generate2bppData_.
\* new Uint8Array(totalBytes) truncates a fractional length; bytes.set
\* throws a RangeError when a tile does not fit, which ends the handler.
generateTileData_(e, map, fs, w, h) ==
  LET bpt == BytesPerTile(e)
      totalBytes == (Len(fs) * w * h * bpt) \div 64
      order == TileOrder(w, h, Len(fs))
      fits(k) == k * bpt <= totalBytes
      threw == \E k \in 1..Len(order) : ~fits(k)
      lastTile == IF threw
                  THEN CHOOSE k \in 1..Len(order) :
                         ~fits(k) /\ \A j \in 1..(k - 1) : fits(j)
                  ELSE Len(order)
      looks == Seq1([k \in 1..lastTile |->
                  LET t == order[k]
                      px == TilePixels(fs[t.f], w, h, t.tileX * 8, t.tileY * 8)
                  IN  [px |-> px, res |-> TileLookups(e, map, px)]])
      slots == Seq1([k \in 1..lastTile |->
                  Seq1([i \in 1..64 |-> looks[k].res[i].slot])])
      tiles == Seq1([k \in 1..lastTile |-> Seq1(encodeTile_(e, slots[k]))])
  IN  [bytes   |-> IF threw THEN <<>>
                   ELSE Flatten(tiles, bpt),
       threw   |-> threw,
       warned  |-> \E k \in 1..lastTile, i \in 1..64 : looks[k].res[i].warned,
       encoded |-> { <<looks[k].px[i], looks[k].res[i].slot>> :
                       k \in 1..lastTile, i \in 1..64 }]

\* GenesisConsoleMode.prototype.colorToCRAMBytes (and the controller's
\* fallback when the mode is not registered, which computes the same).
colorToCRAMBytes(rgb) ==
  LET r3 == MathRound(rgb[1] * 7, 255)
      g3 == MathRound(rgb[2] * 7, 255)
      b3 == MathRound(rgb[3] * 7, 255)
  IN  <<BitOr(Shl(r3, 1), Shl(g3, 5)), Shl(b3, 1)>>

\* GBCConsoleMode.prototype.colorToRGB555Bytes (and the same fallback).
colorToRGB555Bytes(rgb) ==
  LET r5 == MathRound(rgb[1] * 31, 255)
      g5 == MathRound(rgb[2] * 31, 255)
      b5 == MathRound(rgb[3] * 31, 255)
  IN  <<BitOr(Shl(BitAnd(g5, 7), 5), r5),
        BitOr(Shl(b5, 2), BitAnd(Shr(g5, 3), 3))>>

\* SMS_PALETTE_DATA: the 64 colours of the Master System with their CRAM
\* byte, each entry as <<r, g, b, cram>>.
SMS_PALETTE_DATA ==
  <<
     <<0, 0, 0, 0>>, <<85, 0, 0, 1>>, <<0, 85, 0, 4>>, <<0, 0, 85, 16>>,
     <<85, 85, 0, 5>>, <<85, 0, 85, 17>>, <<0, 85, 85, 20>>, <<85, 85, 85, 21>>,
     <<170, 0, 0, 2>>, <<0, 170, 0, 8>>, <<0, 0, 170, 32>>, <<170, 170, 0, 10>>,
     <<170, 0, 170, 34>>, <<0, 170, 170, 40>>, <<170, 85, 0, 6>>, <<85, 170, 0, 9>>,
     <<0, 85, 170, 36>>, <<85, 0, 170, 33>>, <<170, 0, 85, 18>>, <<0, 170, 85, 24>>,
     <<85, 170, 85, 25>>, <<170, 85, 170, 38>>, <<85, 170, 170, 41>>, <<170, 170, 170, 42>>,
     <<255, 0, 0, 3>>, <<0, 255, 0, 12>>, <<0, 0, 255, 48>>, <<255, 255, 0, 15>>,
     <<255, 0, 255, 51>>, <<0, 255, 255, 60>>, <<255, 85, 0, 7>>, <<85, 255, 0, 13>>,
     <<0, 85, 255, 52>>, <<85, 0, 255, 49>>, <<255, 0, 85, 19>>, <<0, 255, 85, 28>>,
     <<255, 85, 85, 23>>, <<85, 255, 85, 29>>, <<85, 85, 255, 53>>, <<255, 170, 0, 11>>,
     <<255, 170, 85, 27>>, <<85, 255, 170, 45>>, <<170, 85, 255, 54>>, <<170, 255, 85, 30>>,
     <<85, 170, 255, 57>>, <<255, 85, 170, 39>>, <<170, 255, 170, 46>>, <<255, 170, 170, 43>>,
     <<170, 170, 255, 58>>, <<255, 170, 255, 59>>, <<170, 255, 255, 62>>, <<255, 255, 170, 47>>,
     <<0, 170, 255, 56>>, <<170, 0, 255, 50>>, <<255, 0, 170, 35>>, <<170, 255, 0, 14>>,
     <<255, 255, 85, 31>>, <<255, 85, 255, 55>>, <<85, 255, 255, 61>>, <<170, 170, 85, 26>>,
     <<85, 85, 170, 37>>, <<0, 255, 170, 44>>, <<170, 85, 85, 22>>, <<255, 255, 255, 63>>
  >>

\* (b2 << 4) | (g2 << 2) | r2 with each channel rounded to 2 bits.
smsNearestByte(rgb) ==
  LET r2 == MathRound(rgb[1] * 3, 255)
      g2 == MathRound(rgb[2] * 3, 255)
      b2 == MathRound(rgb[3] * 3, 255)
  IN  BitOr(BitOr(Shl(b2, 4), Shl(g2, 2)), r2)

\* SMSConsoleMode.prototype.getCRAMForColor (null = NoEntry)
getCRAMForColor(hex) ==
  TableValue(SMS_PALETTE_DATA, LAMBDA en : SubSeq(en, 1, 3),
             LAMBDA en : en[4], hex)

\* SMSConsoleMode.prototype.colorToCRAMByte: the table value of a palette
\* colour, the nearest CRAM byte for any other colour.
colorToCRAMByte(hex) ==
  LET knownCram == getCRAMForColor(hex)
  IN  IF knownCram # NoEntry THEN knownCram ELSE smsNearestByte(hex.rgb)

\* NES_PALETTE_DATA: the NES colours with their PPU register ($00..$3D),
\* each entry as <<r, g, b, register>>.
NES_PALETTE_DATA ==
  <<
     <<124, 124, 124, 0>>, <<0, 0, 252, 1>>, <<0, 0, 188, 2>>, <<68, 40, 188, 3>>,
     <<148, 0, 132, 4>>, <<168, 0, 32, 5>>, <<168, 16, 0, 6>>, <<136, 20, 0, 7>>,
     <<80, 48, 0, 8>>, <<0, 120, 0, 9>>, <<0, 104, 0, 10>>, <<0, 88, 0, 11>>,
     <<0, 64, 88, 12>>, <<0, 0, 0, 15>>, <<188, 188, 188, 16>>, <<0, 120, 248, 17>>,
     <<0, 88, 248, 18>>, <<104, 68, 252, 19>>, <<216, 0, 204, 20>>, <<228, 0, 88, 21>>,
     <<248, 56, 0, 22>>, <<228, 92, 16, 23>>, <<172, 124, 0, 24>>, <<0, 184, 0, 25>>,
     <<0, 168, 0, 26>>, <<0, 168, 68, 27>>, <<0, 136, 136, 28>>, <<0, 0, 0, 31>>,
     <<248, 248, 248, 32>>, <<60, 188, 252, 33>>, <<104, 136, 252, 34>>, <<152, 120, 248, 35>>,
     <<248, 120, 248, 36>>, <<248, 88, 152, 37>>, <<248, 120, 88, 38>>, <<252, 160, 68, 39>>,
     <<248, 184, 0, 40>>, <<184, 248, 24, 41>>, <<88, 216, 84, 42>>, <<88, 248, 152, 43>>,
     <<0, 232, 216, 44>>, <<120, 120, 120, 45>>, <<252, 252, 252, 48>>, <<164, 228, 252, 49>>,
     <<184, 184, 248, 50>>, <<216, 184, 248, 51>>, <<248, 184, 248, 52>>, <<248, 164, 192, 53>>,
     <<240, 208, 176, 54>>, <<252, 224, 168, 55>>, <<248, 216, 120, 56>>, <<216, 248, 120, 57>>,
     <<184, 248, 184, 58>>, <<184, 248, 216, 59>>, <<0, 252, 252, 60>>, <<248, 216, 248, 61>>
  >>

\* NESConsoleMode.prototype.getRegisterForColor (null = NoEntry)
getRegisterForColor(hex) ==
  TableValue(NES_PALETTE_DATA, LAMBDA en : SubSeq(en, 1, 3),
             LAMBDA en : en[4], hex)

\* MSX_PALETTE_DATA: the 15 colours of the TMS9918A with their VDP index,
\* each entry as <<r, g, b, index>>.
MSX_PALETTE_DATA ==
  <<
     <<0, 0, 0, 1>>, <<33, 200, 66, 2>>, <<94, 220, 120, 3>>, <<84, 85, 237, 4>>,
     <<125, 118, 252, 5>>, <<212, 82, 77, 6>>, <<66, 235, 245, 7>>, <<252, 85, 84, 8>>,
     <<255, 121, 120, 9>>, <<212, 193, 84, 10>>, <<230, 206, 128, 11>>, <<33, 176, 59, 12>>,
     <<201, 91, 186, 13>>, <<204, 204, 204, 14>>, <<255, 255, 255, 15>>
  >>

\* MSXConsoleMode.prototype.getIndexForColor (null = NoEntry)
getIndexForColor(hex) ==
  TableValue(MSX_PALETTE_DATA, LAMBDA en : SubSeq(en, 1, 3),
             LAMBDA en : en[4], hex)

\* Msx1bppExportController.prototype.getColorIndex_(hexColor): the VDP
\* index of the foreground colour, 15 (white) when the table has none.
msxGetColorIndex_(hex) ==
  LET index == IF HasMode("msx") THEN getIndexForColor(hex) ELSE NoEntry
  IN  IF index # NoEntry THEN index ELSE 15

\* config.palette of the fixed-palette profiles: the colours of the table.
FixedPalette ==
  [nes     |-> [i \in 1..Len(NES_PALETTE_DATA) |->
                  SubSeq(NES_PALETTE_DATA[i], 1, 3)],
   gameboy |-> [i \in 1..Len(GB_PALETTE_DATA) |-> GB_PALETTE_DATA[i].color],
   msx     |-> [i \in 1..Len(MSX_PALETTE_DATA) |->
                  SubSeq(MSX_PALETTE_DATA[i], 1, 3)],
   sms     |-> [i \in 1..Len(SMS_PALETTE_DATA) |->
                  SubSeq(SMS_PALETTE_DATA[i], 1, 3)]]

\* ConsoleMode.prototype.isValidColor: true without a palette, else
\* whether some palette colour equals the colour once both are upper-cased.
isValidColor(modeId, hex) ==
  IF modeId \notin DOMAIN FixedPalette THEN TRUE
  ELSE \E i \in 1..Len(FixedPalette[modeId]) :
         toUpperCase(Hex(FixedPalette[modeId][i], TRUE)) = toUpperCase(hex)

\* Msx24bppExportController.prototype.generatePaletteData_, either branch:
\* 0RRR0GGG 0BBB0000.
colorToPaletteBytes(rgb) ==
  LET r3 == MathRound(rgb[1] * 7, 255)
      g3 == MathRound(rgb[2] * 7, 255)
      b3 == MathRound(rgb[3] * 7, 255)
  IN  <<BitOr(Shl(r3, 4), g3), Shl(b3, 4)>>

\* The bytes generatePaletteData_ of controller e stores for one colour.
EntryBytes(e, color) ==
  CASE e = "genesis4bpp" -> colorToCRAMBytes(color)
    [] e = "msx24bpp"    -> colorToPaletteBytes(color)
    [] e = "sms4bpp"     -> IF HasMode("sms") THEN <<colorToCRAMByte(Hex(color, TRUE))>>
                            ELSE <<smsNearestByte(color)>>
    [] OTHER             -> colorToRGB555Bytes(color)

\* <Controller>.prototype.generatePaletteData_
generatePaletteData_(e, pal) ==
  Flatten(Seq1([i \in 1..PaletteSlots(e) |->
     LET color == pal[i] IN
     IF i = 1 \/ color = Null THEN [k \in 1..BytesPerEntry(e) |-> 0]
     ELSE EntryBytes(e, color)]), BytesPerEntry(e))

(***************************************************************************)
(* Dreamcast PVR export.                                                   *)
(***************************************************************************)

PvrFormats == {"ARGB1555", "RGB565", "ARGB4444"}

\* DreamcastConsoleMode.prototype.toARGB1555 (and toARGB1555Fallback_)
toARGB1555(r, g, b, a) ==
  LET alpha == IF a >= 128 THEN 1 ELSE 0
      r5 == MathRound(r * 31, 255)
      g5 == MathRound(g * 31, 255)
      b5 == MathRound(b * 31, 255)
  IN  BitOr(BitOr(Shl(alpha, 15), Shl(r5, 10)), BitOr(Shl(g5, 5), b5))

\* DreamcastConsoleMode.prototype.toRGB565
toRGB565(r, g, b) ==
  LET r5 == MathRound(r * 31, 255)
      g6 == MathRound(g * 63, 255)
      b5 == MathRound(b * 31, 255)
  IN  BitOr(Shl(r5, 11), BitOr(Shl(g6, 5), b5))

\* DreamcastConsoleMode.prototype.toARGB4444
toARGB4444(r, g, b, a) ==
  LET a4 == MathRound(a * 15, 255)
      r4 == MathRound(r * 15, 255)
      g4 == MathRound(g * 15, 255)
      b4 == MathRound(b * 15, 255)
  IN  BitOr(BitOr(Shl(a4, 12), Shl(r4, 8)), BitOr(Shl(g4, 4), b4))

\* DreamcastPvrExportController.prototype.getFramePixels_: the frame as a
\* Uint16Array, here a sequence of w * h values.
getFramePixels_(frame, w, h, format) ==
  Seq1([i \in 1..(w * h) |->
     LET px == PixelAt(frame, w, h, i - 1) IN
     IF ~HasMode("dreamcast") THEN toARGB1555(px[1], px[2], px[3], px[4])
     ELSE CASE format = "RGB565"   -> toRGB565(px[1], px[2], px[3])
            [] format = "ARGB4444" -> toARGB4444(px[1], px[2], px[3], px[4])
            [] OTHER               -> toARGB1555(px[1], px[2], px[3], px[4])])

\* Element i (from 0) of a Uint16Array held as a sequence; a read past the
\* end yields undefined, which a Uint16Array stores as 0.
U16At(arr, i) == IF i < Len(arr) THEN arr[i + 1] ELSE 0

\* DreamcastConsoleMode.prototype.twiddleSquare: the loop over y and x
\* stores linear[y * size + x] at twiddled[mortonCode(x, y)]; the last
\* store to an index stays, an index never stored to keeps 0, and a store
\* past the end of twiddled is ignored.
twiddleSquare(linear, size) ==
  LET cells == 0..(size * size - 1)
      code == Fun1([k \in cells |-> mortonCode(k % size, k \div size)])
      Stores(m) == { k \in cells : code[k] = m }
      LastStore(m) == CHOOSE k \in Stores(m) : \A j \in Stores(m) : j <= k
  IN  Seq1([i \in 1..(size * size) |->
         IF Stores(i - 1) = {} THEN 0
         ELSE U16At(linear, LastStore(i - 1))])

\* twiddleRectangular with localX and localY exchanged.
twiddleRectangular_swapped(linear, w, h) ==
  LET boinSize == Min(w, h)
      numX == (w + boinSize - 1) \div boinSize
      numY == (h + boinSize - 1) \div boinSize
      perBoin == boinSize * boinSize
      Src(outIndex) ==
        LET boin == outIndex \div perBoin
            i == outIndex % perBoin
            baseX == (boin % numX) * boinSize
            baseY == (boin \div numX) * boinSize
        IN  (baseY + deinterleaveEven(i)) * w + (baseX + deinterleaveOdd(i))
  IN  Seq1([o \in 1..(w * h) |->
         IF o - 1 < numX * numY * perBoin THEN U16At(linear, Src(o - 1))
         ELSE 0])

\* DreamcastConsoleMode.prototype.twiddleRectangular: blocks of
\* boinSize x boinSize in raster order, each read in Morton order; the
\* values written after the end of twiddled are dropped.
twiddleRectangular(linear, w, h) ==
  LET boinSize == Min(w, h)
      numX == (w + boinSize - 1) \div boinSize   \* boinX < width / boinSize
      numY == (h + boinSize - 1) \div boinSize
      perBoin == boinSize * boinSize
      Src(outIndex) ==
        LET boin == outIndex \div perBoin
            i == outIndex % perBoin
            baseX == (boin % numX) * boinSize
            baseY == (boin \div numX) * boinSize
        IN  (baseY + deinterleaveOdd(i)) * w + (baseX + deinterleaveEven(i))
  IN  Seq1([o \in 1..(w * h) |->
         IF o - 1 < numX * numY * perBoin THEN U16At(linear, Src(o - 1))
         ELSE 0])

\* DreamcastConsoleMode.prototype.twiddlePixels
twiddlePixels(linear, w, h) ==
  IF w = h THEN twiddleSquare(linear, w)
  ELSE twiddleRectangular(linear, w, h)

\* DataView.setUint32 / setUint16 / Uint16Array bytes, little-endian.
LE32(v) == <<v % 256, (v \div 256) % 256, (v \div 65536) % 256,
             (v \div 16777216) % 256>>
LE16(v) == <<v % 256, (v \div 256) % 256>>

GBIX_MAGIC == 1481196103   \* 0x58494247
PVRT_MAGIC == 1414681168   \* 0x54525650

\* DreamcastPvrExportController.prototype.getPixelFormatCode_
getPixelFormatCode_(format) ==
  CASE format = "RGB565"   -> 1
    [] format = "ARGB4444" -> 2
    [] OTHER               -> 0

\* DreamcastPvrExportController.prototype.generatePvrData_: the file bytes.
generatePvrData_(frameIndex, frame, w, h, format, twiddle, includeGbix) ==
  LET linear == getFramePixels_(frame, w, h, format)
      pixels == IF twiddle /\ HasMode("dreamcast")
                THEN twiddlePixels(linear, w, h)
                ELSE linear
      gbix == IF includeGbix
              THEN LE32(GBIX_MAGIC) \o LE32(8) \o LE32(frameIndex) \o LE32(0)
              ELSE <<>>
      pvrt == LE32(PVRT_MAGIC) \o LE32(w * h * 2)
              \o <<getPixelFormatCode_(format), IF twiddle THEN 1 ELSE 9>>
              \o LE16(0) \o LE16(w) \o LE16(h)
  IN  gbix \o pvrt
      \o Flatten(Seq1([i \in 1..Len(pixels) |-> LE16(pixels[i])]), 2)

\* DreamcastConsoleMode.prototype.isPowerOfTwo
isPowerOfTwo(n) == n > 0 /\ BitAnd(n, n - 1) = 0

\* DreamcastConsoleMode.prototype.nextPowerOfTwo, for n >= 1:
\* Math.pow(2, Math.ceil(Math.log2(n))), the least power of two >= n.
RECURSIVE nextPowerOfTwoFrom(_, _)
nextPowerOfTwoFrom(n, p) == IF p >= n THEN p ELSE nextPowerOfTwoFrom(n, 2 * p)
nextPowerOfTwo(n) == nextPowerOfTwoFrom(n, 1)

\* DreamcastConsoleMode.prototype.validateDimensions: the issues array.
\* The two "exceeds maximum" issues carry no suggestion.
validateDimensions(w, h) ==
  (IF ~isPowerOfTwo(w)
   THEN <<[type |-> "error", field |-> "width",
           message |-> "is not power of 2",
           suggestion |-> nextPowerOfTwo(w)]>>
   ELSE <<>>)
  \o (IF ~isPowerOfTwo(h)
      THEN <<[type |-> "error", field |-> "height",
              message |-> "is not power of 2",
              suggestion |-> nextPowerOfTwo(h)]>>
      ELSE <<>>)
  \o (IF w > 1024
      THEN <<[type |-> "error", field |-> "width",
              message |-> "exceeds maximum (1024)"]>>
      ELSE <<>>)
  \o (IF h > 1024
      THEN <<[type |-> "error", field |-> "height",
              message |-> "exceeds maximum (1024)"]>>
      ELSE <<>>)

(***************************************************************************)
(* The sprite, the colour list and the export panel.                       *)
(***************************************************************************)

\* Number of frames of the sprite.
FrameCounts == {1, 2}

\* Canvas sizes: one tile, one and a half tiles, two tiles.
Dims == {<<8, 8>>, <<12, 8>>, <<16, 8>>}

\* Sprites to start from: k colours repeated over the canvas (0 = blank).
RampBase  == 5
RampSizes == {0, 1, 3, 15}
Ramp(k, w, h) ==
  [p \in 0..(w * h - 1) |-> IF k = 0 THEN 0 ELSE RampBase + (p % k)]

\* The pen: the cell it draws on and its colours (0 erases; 2 is the DMG
\* shade #8BAC0F; NumColors is a colour no ramp holds).
DrawCells  == {1}
DrawColors == {0, 2, NumColors}

\* The profiles of the export panel and the tab each one adds (exportTabs).
ExportModeIds == {"nes", "gameboy", "gbc", "genesis", "dreamcast"}
ExportTabs ==
  [nes |-> "chr", gameboy |-> "gb2bpp", gbc |-> "gbc2bpp",
   genesis |-> "genesis4bpp", dreamcast |-> "dreamcastpvr"]

\* isTabAvailable: a console tab is offered under its own profile only.
isTabAvailable(tabId) ==
  /\ activeMode_ # NoMode
  /\ activeMode_[1] \in DOMAIN ExportTabs
  /\ ExportTabs[activeMode_[1]] = tabId

\* The sprite's distinct opaque colours in first-seen order: frames in
\* index order, pixels row by row.
FirstSeen(fs) ==
  LET size == Cardinality(DOMAIN fs[1])
      At(q) == fs[(q \div size) + 1][q % size]
      cells == 0..(Len(fs) * size - 1)
      used == { At(q) : q \in cells } \ {0}
      firstPos == Fun1([c \in used |->
                     CHOOSE q \in cells :
                       At(q) = c /\ \A r \in 0..(q - 1) : At(r) # c])
      before == Fun1([c \in used |->
                   Cardinality({ d \in used : firstPos[d] < firstPos[c] })])
  IN  Seq1([i \in 1..Cardinality(used) |->
         CHOOSE c \in used : before[c] = i - 1])

\* What the click handler that is running gave to
\* FileUtils.downloadAsFile, and what its encoder met: files (byte sequences), an exception thrown out of the handler,
\* the unmapped-colour warning, and the <<pixel, slot>> pairs it encoded.
NoHandoff ==
  [kind |-> "none", files |-> <<>>, threw |-> FALSE, warned |-> FALSE,
   encoded |-> {}]

\* init / a CURRENT_COLORS_UPDATED event: the controller validates again.
Revalidate(e, colors) ==
  LET v == validateAndDisplay_(e, width, height, colors)
  IN  /\ colorMap' = v.colorMap
      /\ paletteColors' = v.paletteColors
      /\ buttonDisabled' = v.disabled

\* The export panel opens the tab of controller e: <Controller>.init.
OpenExporter(e) ==
  /\ handoff = NoHandoff
  /\ exporter = NoExporter
  /\ isTabAvailable(e)
  /\ exporter' = e
  /\ Revalidate(e, currentColors)
  /\ UNCHANGED <<uiVars, pureVars, registryVars, spriteVars, handoff>>

\* The panel closes: the controller is destroyed.
CloseExporter ==
  /\ handoff = NoHandoff
  /\ exporter # NoExporter
  /\ exporter' = NoExporter
  /\ colorMap' = <<>>
  /\ paletteColors' = <<>>
  /\ buttonDisabled' = FALSE
  /\ UNCHANGED <<uiVars, pureVars, registryVars, spriteVars, handoff>>

\* The user draws colour c on cell p of the first frame.  The colour list
\* is not touched: it is recomputed later, by UpdateCurrentColors.
Draw(p, c) ==
  /\ handoff = NoHandoff
  /\ p \in DOMAIN frames[1]
  /\ frames[1][p] # c
  /\ frames' = [frames EXCEPT ![1][p] = c]
  /\ UNCHANGED <<uiVars, pureVars, registryVars, width, height, currentColors,
                 exporter, colorMap, paletteColors, buttonDisabled, handoff>>

\* CurrentColorsService finishes recomputing the colours of the sprite,
\* stores them and publishes CURRENT_COLORS_UPDATED; the open tile
\* controller, which subscribed in init, handles it at once.
UpdateCurrentColors ==
  /\ handoff = NoHandoff
  /\ currentColors # FirstSeen(frames)
  /\ currentColors' = FirstSeen(frames)
  /\ IF exporter \in TileExporters
     THEN Revalidate(exporter, FirstSeen(frames))
     ELSE UNCHANGED <<colorMap, paletteColors, buttonDisabled>>
  /\ UNCHANGED <<uiVars, pureVars, registryVars, width, height, frames, exporter,
                 handoff>>

\* on...DownloadClick_ / onDownloadTilesClick_ of a tile controller.  A
\* disabled button delivers no click.
ClickDownloadTiles ==
  /\ handoff = NoHandoff
  /\ exporter \in TileExporters
  /\ ~buttonDisabled
  /\ LET d == generateTileData_(exporter, colorMap, frames, width, height)
     IN  handoff' = [kind |-> "tiles",
                     files |-> IF d.threw THEN <<>> ELSE <<d.bytes>>,
                     threw |-> d.threw, warned |-> d.warned,
                     encoded |-> d.encoded]
  /\ UNCHANGED <<uiVars, pureVars, registryVars, spriteVars, exporter, colorMap,
                 paletteColors, buttonDisabled>>

\* onDownloadPaletteClick_ of a controller that writes a palette file.
ClickDownloadPalette ==
  /\ handoff = NoHandoff
  /\ exporter \in PaletteExporters
  /\ handoff' = [NoHandoff EXCEPT
                   !.kind = "palette",
                   !.files = <<generatePaletteData_(exporter, paletteColors)>>]
  /\ UNCHANGED <<uiVars, pureVars, registryVars, spriteVars, exporter, colorMap,
                 paletteColors, buttonDisabled>>

\* DreamcastPvrExportController.prototype.onDownloadPvrClick_: one file
\* per frame.
ClickDownloadPvr(format, twiddle, includeGbix) ==
  /\ handoff = NoHandoff
  /\ exporter = "dreamcastpvr"
  /\ handoff' = [NoHandoff EXCEPT
                   !.kind = "pvr",
                   !.files = [f \in 1..Len(frames) |->
                                generatePvrData_(f - 1, frames[f], width,
                                                 height, format, twiddle,
                                                 includeGbix)]]
  /\ UNCHANGED <<uiVars, pureVars, registryVars, spriteVars, exporter, colorMap,
                 paletteColors, buttonDisabled>>

\* The click handler returns; the browser has taken its files.
HandlerReturns ==
  /\ handoff # NoHandoff
  /\ handoff' = NoHandoff
  /\ UNCHANGED <<uiVars, pureVars, registryVars, spriteVars, exporter, colorMap,
                 paletteColors, buttonDisabled>>

\* What FileUtils.downloadAsFile is given, as the trace keeps it: the kind
\* of file and the controller's colour-to-slot mapping it was made from
\* (colorMap for the tiles, paletteColors for the palette; validateAndDisplay_
\* always rebuilds the two together).
Download(kind) ==
  [fn |-> "downloadAsFile", kind |-> kind, colorMap |-> colorMap,
   paletteColors |-> paletteColors]
DownloadsOf(kind) == SelectSeq(trace, LAMBDA t : t.kind = kind)

\* "Download both" requests followed.
MaxRequests == 2

\* Genesis4bppExportController.prototype.onDownloadBothClick_: the tile
\* file is handed over at once, onDownloadPaletteClick_ is given to
\* setTimeout.  When the encoder throws, the handler ends before
\* setTimeout is reached.
ClickDownloadBoth ==
  /\ handoff = NoHandoff
  /\ exporter = "genesis4bpp"
  /\ Len(DownloadsOf("tiles")) < MaxRequests
  /\ LET d == generateTileData_(exporter, colorMap, frames, width, height)
     IN  /\ handoff' = [kind |-> "tiles",
                        files |-> IF d.threw THEN <<>> ELSE <<d.bytes>>,
                        threw |-> d.threw, warned |-> d.warned,
                        encoded |-> d.encoded]
         /\ trace' = IF d.threw THEN trace
                     ELSE Append(trace, Download("tiles"))
         /\ timers' = IF d.threw THEN timers
                      ELSE Append(timers, "onDownloadPaletteClick_")
  /\ UNCHANGED <<pureVars, registryVars, spriteVars, exporter, colorMap,
                 paletteColors, buttonDisabled, subscribers, panel, selected,
                 dialog>>

\* The 100 ms timer set by onDownloadBothClick_ runs its callback,
\* onDownloadPaletteClick_ bound to the controller.
TimerFires ==
  /\ handoff = NoHandoff
  /\ timers # <<>>
  /\ timers' = Tail(timers)
  /\ handoff' = [NoHandoff EXCEPT
                   !.kind = "palette",
                   !.files = <<generatePaletteData_("genesis4bpp",
                                                     paletteColors)>>]
  /\ trace' = Append(trace, Download("palette"))
  /\ UNCHANGED <<pureVars, registryVars, spriteVars, exporter, colorMap,
                 paletteColors, buttonDisabled, subscribers, panel, selected,
                 dialog>>

\* Function objects as $.subscribe and $.unsubscribe tell them apart: a
\* method read from the prototype (this.onConsoleModeChanged_) is one
\* object for every instance; fn.bind(this) is a new object, here named by
\* the instance it is bound to.
Method(name)          == [method |-> name, boundTo |-> 0]
bind(fn, instance)    == [fn EXCEPT !.boundTo = instance]

\* $.subscribe(event, fn) adds fn to the handlers of event;
\* $.unsubscribe(event, fn) removes the handlers of event that are fn.
subscribe(subs, event, fn) == Append(subs, [event |-> event, fn |-> fn])
unsubscribe(subs, event, fn) ==
  SelectSeq(subs, LAMBDA h : ~(h.event = event /\ h.fn = fn))

\* ExportController instances created over a run.
MaxCycles == 3
Instances == { subscribers[i].fn.boundTo : i \in DOMAIN subscribers }

\* The export panel opens: a new ExportController and its init, which
\* initialises the tab widget and with it the controller of tab e, then
\* subscribes its two bound handlers.
OpenPanel(e) ==
  /\ handoff = NoHandoff
  /\ panel = 0
  /\ exporter = NoExporter
  /\ isTabAvailable(e)
  /\ Cardinality(Instances) < MaxCycles
  /\ LET this == Cardinality(Instances) + 1
         tab == IF e \in TileExporters
                THEN subscribe(subscribers, "CURRENT_COLORS_UPDATED",
                               bind(Method("validateAndDisplay_"), this))
                ELSE subscribers
     IN  /\ panel' = this
         /\ subscribers' =
              subscribe(subscribe(tab, "CONSOLE_MODE_CHANGED",
                                  bind(Method("onConsoleModeChanged_"), this)),
                        "NES_MODE_CHANGED",
                        bind(Method("onNesModeChanged_"), this))
  /\ exporter' = e
  /\ Revalidate(e, currentColors)
  /\ UNCHANGED <<pureVars, registryVars, spriteVars, handoff, timers,
                 selected, dialog, trace>>

\* The export panel closes: ExportController.prototype.destroy, which
\* destroys the tab widget and with it the tab's controller.
ClosePanel ==
  /\ handoff = NoHandoff
  /\ panel # 0
  /\ subscribers' =
       unsubscribe(unsubscribe(subscribers, "CONSOLE_MODE_CHANGED",
                               Method("onConsoleModeChanged_")),
                   "NES_MODE_CHANGED", Method("onNesModeChanged_"))
  /\ panel' = 0
  /\ exporter' = NoExporter
  /\ colorMap' = <<>>
  /\ paletteColors' = <<>>
  /\ buttonDisabled' = FALSE
  /\ UNCHANGED <<pureVars, registryVars, spriteVars, handoff, timers,
                 selected, dialog, trace>>

(***************************************************************************)
(* The colour pickers and the replace-color dialog.                        *)
(***************************************************************************)

\* window.tinycolor(c).toHexString().toUpperCase() of a colour of the model.
Normalized(c) == toUpperCase(Hex(ColorRGB(c), FALSE))

\* currentColors.some(c => normalized c === normalized color)
InColors(colors, color) ==
  \E i \in DOMAIN colors : Normalized(colors[i]) = Normalized(color)

\* PaletteController.prototype.validateNESColorLimit_
validateNESColorLimit_(color, colors) ==
  LET maxColors == IF activeMode_ = NoMode THEN Unlimited
                   ELSE ModeConfig[activeMode_[1]].maxColors
  IN  IF maxColors = Unlimited THEN "allowed"
      ELSE IF color = TRANSPARENT_COLOR THEN "allowed"
      ELSE IF InColors(colors, color) THEN "allowed"
      ELSE IF Len(colors) >= maxColors THEN "replace"
      ELSE "allowed"

\* The pickers and the dialog, as setPrimaryColor_ / setSecondaryColor_
\* leave them.  "allowed" publishes PRIMARY_/SECONDARY_COLOR_SELECTED, which
\* selectedColorsService stores; "replace" publishes DIALOG_SHOW through
\* promptColorReplacement_, which puts up the dialog unless one is on
\* display, with the sprite's colours as its cards (populateColorGrid_).
setColor_(st, color, isPrimary, colors) ==
  IF validateNESColorLimit_(color, colors) = "replace"
  THEN IF st.dialog.open THEN st
       ELSE [st EXCEPT !.dialog =
               [open |-> TRUE, newColor |-> color, isPrimary |-> isPrimary,
                onColorSelected |-> TRUE, onCancel |-> TRUE,
                cards |-> colors]]
  ELSE IF isPrimary THEN [st EXCEPT !.selected.primary = color]
       ELSE [st EXCEPT !.selected.secondary = color]

\* Colours the user picks: transparent, the first ramp colour, two colours
\* no ramp holds.
PickColors == {TRANSPARENT_COLOR, RampBase, NumColors - 1, NumColors}

\* Dialog callbacks followed.
MaxCallbacks == 1

\* onPickerChange_ / onColorSelected_: the user picks a colour in one of
\* the two pickers.
SelectColor(color, isPrimary) ==
  /\ ~dialog.open
  /\ Len(trace) < MaxCallbacks
  /\ LET st == setColor_([selected |-> selected, dialog |-> dialog], color,
                         isPrimary, currentColors)
     IN  /\ selected' = st.selected
         /\ dialog' = st.dialog
         /\ st.selected # selected \/ st.dialog # dialog
  /\ UNCHANGED <<pureVars, registryVars, spriteVars, exportVars, timers,
                 subscribers, panel, trace>>

\* PaletteController.prototype.swapColors
SwapColors ==
  /\ ~dialog.open
  /\ Len(trace) < MaxCallbacks
  /\ LET st1 == setColor_([selected |-> selected, dialog |-> dialog],
                          selected.secondary, TRUE, currentColors)
         st2 == setColor_(st1, selected.primary, FALSE, currentColors)
     IN  /\ selected' = st2.selected
         /\ dialog' = st2.dialog
         /\ st2.selected # selected \/ st2.dialog # dialog
  /\ UNCHANGED <<pureVars, registryVars, spriteVars, exportVars, timers,
                 subscribers, panel, trace>>

\* The user draws on cell p of the first frame with the primary or the
\* secondary colour.  The colour list is recomputed later.
DrawSelected(p, isPrimary) ==
  LET c == IF isPrimary THEN selected.primary ELSE selected.secondary
  IN  /\ ~dialog.open
      /\ p \in DOMAIN frames[1]
      /\ frames[1][p] # c
      /\ frames' = [frames EXCEPT ![1][p] = c]
      /\ UNCHANGED <<uiVars, pureVars, registryVars, width, height,
                     currentColors, exportVars>>

\* PaletteController.prototype.replaceColorInSprite_: the pixels.
replaceColorInSprite_(fs, oldColor, newColor) ==
  [f \in DOMAIN fs |->
     [q \in DOMAIN fs[f] |-> IF fs[f][q] = oldColor THEN newColor
                              ELSE fs[f][q]]]

\* PaletteController.prototype.syncUpdateCurrentColors_
syncUpdateCurrentColors_(colors, oldColor, newColor) ==
  LET newColors == SelectSeq(colors,
                     LAMBDA c : Normalized(c) # Normalized(oldColor))
  IN  IF InColors(newColors, newColor) THEN newColors
      ELSE Append(newColors, newColor)

\* ReplaceColorController.prototype.onColorCardClick_ on the card of
\* oldColor.  closeDialog() publishes DIALOG_HIDE; destroysNow tells whether
\* the dialogs controller destroys the dialog controller while handling it
\* or after the click handler has returned.  destroy() clears
\* onColorSelected, which the handler tests next.
ClickColorCard(oldColor, destroysNow) ==
  /\ dialog.open
  /\ \E i \in DOMAIN dialog.cards : dialog.cards[i] = oldColor
  /\ dialog' = NoDialog
  /\ LET onColorSelected == IF destroysNow THEN FALSE
                            ELSE dialog.onColorSelected
     IN  IF onColorSelected
         THEN /\ trace' = Append(trace,
                   [fn |-> "onColorSelected",
                    args |-> <<oldColor, dialog.newColor, dialog.isPrimary>>,
                    dialogOpen |-> FALSE])
              /\ frames' = replaceColorInSprite_(frames, oldColor,
                                                 dialog.newColor)
              /\ currentColors' = syncUpdateCurrentColors_(
                                     currentColors, oldColor, dialog.newColor)
              /\ selected' = IF dialog.isPrimary
                             THEN [selected EXCEPT !.primary = dialog.newColor]
                             ELSE [selected EXCEPT
                                     !.secondary = dialog.newColor]
         ELSE UNCHANGED <<trace, frames, currentColors, selected>>
  /\ UNCHANGED <<pureVars, registryVars, width, height, exportVars, timers,
                 subscribers, panel>>

\* '#000000', which no colour of the model stands for.
DEFAULT_PEN_COLOR == -1

\* PaletteController.prototype.restoreValidColorState_: the colour that is
\* selected again.
restoreValidColorState_(sel, isPrimary, colors) ==
  LET selectedColor == IF isPrimary THEN sel.primary ELSE sel.secondary
      restoreColor == IF selectedColor # TRANSPARENT_COLOR THEN selectedColor
                      ELSE IF Len(colors) > 0 THEN colors[1]
                      ELSE DEFAULT_PEN_COLOR
  IN  IF isPrimary THEN [sel EXCEPT !.primary = restoreColor]
      ELSE [sel EXCEPT !.secondary = restoreColor]

\* ReplaceColorController.prototype.onCancel_: the cancel callback, then
\* closeDialog().
ClickCancel ==
  /\ dialog.open
  /\ dialog' = NoDialog
  /\ IF dialog.onCancel
     THEN /\ trace' = Append(trace,
               [fn |-> "onCancel", args |-> <<dialog.isPrimary>>,
                dialogOpen |-> TRUE])
          /\ selected' = restoreValidColorState_(selected, dialog.isPrimary,
                                                 currentColors)
     ELSE UNCHANGED <<trace, selected>>
  /\ UNCHANGED <<pureVars, registryVars, spriteVars, exportVars, timers,
                 subscribers, panel>>

(***************************************************************************)
(* Calls of the pure functions.                                            *)
(***************************************************************************)

\* quantize applied once and applied to its own result.
Quantize ==
  /\ call.op = "quantize"
  /\ ret = Pending
  /\ LET once == quantize(call.space, call.rgb)
     IN  ret' = [once |-> once, twice |-> quantize(call.space, once)]
  /\ UNCHANGED <<uiVars, call, registryVars, spriteVars, exportVars>>

\* mortonCode(x, y) and the two deinterleaves of the code.
Morton ==
  /\ call.op = "morton"
  /\ ret = Pending
  /\ LET code == mortonCode(call.x, call.y)
     IN  ret' = [code |-> code, x |-> deinterleaveEven(code),
                 y |-> deinterleaveOdd(code)]
  /\ UNCHANGED <<uiVars, call, registryVars, spriteVars, exportVars>>

\* Widths and heights a twiddle call is given.
MaxTwiddleDim == 32
TwiddleDims == 1..MaxTwiddleDim

\* A linear buffer of n sequential values: index i holds i.
Sequential(n) == [i \in 1..n |-> i - 1]

\* twiddlePixels on a buffer of width * height sequential values.
Twiddle ==
  /\ call.op = "twiddlePixels"
  /\ ret = Pending
  /\ ret' = [out |-> twiddlePixels(Sequential(call.width * call.height),
                                   call.width, call.height)]
  /\ UNCHANGED <<uiVars, call, registryVars, spriteVars, exportVars>>

\* Widths and heights a validateDimensions call is given: the powers of
\* two up to 2^MaxDimExp and their two neighbours.
MaxDimExp == 11
DimInputs ==
  { 2 ^ k + d : k \in 0..MaxDimExp, d \in {-1, 0, 1} } \ {0}

\* validateDimensions of the texture profile.
ValidateDimensions ==
  /\ call.op = "validateDimensions"
  /\ ret = Pending
  /\ ret' = [issues |-> validateDimensions(call.width, call.height)]
  /\ UNCHANGED <<uiVars, call, registryVars, spriteVars, exportVars>>

\* Sprites the tile encoders are given: canvas sizes (one tile, one and a
\* half, a row of two, 2 x 2 and 3 x 2 tiles), frame counts, and the
\* number of colours of the pattern drawn on them.
EncodeDims        == {<<8, 8>>, <<12, 8>>, <<16, 8>>, <<16, 16>>, <<24, 16>>}
EncodeFrameCounts == {1, 2}
PatternSizes      == {0, 1, 3, 16}
PatternBases      == {0, 4}   \* 0: the DMG shades come first; 4: none used

\* Frame f (from 0) of a pattern of k colours: the top row of every 8x8
\* tile spells a number of the tile in opaque and transparent pixels, the
\* other rows cycle through transparency and the k colours.
Pattern(k, base, w, h, f) ==
  [p \in 0..(w * h - 1) |->
     LET x == p % w
         y == p \div w
         mark == 1 + (x \div 8) + 4 * (y \div 8) + 16 * f
         v == IF k = 0 THEN 0
              ELSE IF y % 8 = 0
                   THEN (IF BitOf(mark, x % 8) = 1 THEN 1 + ((x + f) % k)
                         ELSE 0)
                   ELSE (x + 3 * y + f) % (k + 1)
     IN  IF v = 0 THEN 0 ELSE base + v]

\* The frames of the sprite of a call.
CallFrames ==
  Seq1([f \in 1..call.frameCount |->
     Fun1(Pattern(call.k, call.base, call.dims[1], call.dims[2], f - 1))])

\* States of controller.colorMap a call runs under: built by
\* validateAndDisplay_ from the colours of the sprite ("fresh"), or as the
\* constructor left it ("none": this.colorMap = {}).
MapKinds == {"fresh", "none"}
CallMap ==
  CASE call.e = "msx1bpp"  -> <<>>
    [] call.map = "fresh" -> BuildColorMap(call.e, FirstSeen(CallFrames))
    [] OTHER              -> <<>>

\* generate...Data_ of an encoder on the sprite of the call.
GenerateTileData ==
  /\ call.op = "generateTileData"
  /\ ret = Pending
  /\ ret' = generateTileData_(call.e, CallMap, CallFrames, call.dims[1],
                              call.dims[2])
  /\ UNCHANGED <<uiVars, call, registryVars, spriteVars, exportVars>>

\* encodeTile_ of an encoder on the tile at (tileX * 8, tileY * 8) of the
\* first frame, which may lie partly or wholly outside the image data.
EncodeTile ==
  /\ call.op = "encodeTile"
  /\ ret = Pending
  /\ LET px == TilePixels(CallFrames[1], call.dims[1], call.dims[2],
                          call.tileX * 8, call.tileY * 8)
         res == TileLookups(call.e, CallMap, px)
         slots == [i \in 1..64 |-> res[i].slot]
     IN  ret' = [tile |-> Seq1(encodeTile_(call.e, slots)),
                 slots |-> Seq1(slots),
                 warned |-> \E i \in 1..64 : res[i].warned]
  /\ UNCHANGED <<uiVars, call, registryVars, spriteVars, exportVars>>

\* Patterns for the packed encoders: up to the 15 colours a mapping holds,
\* and one more.
PackedSizes == {0, 2, 15, 16}

\* encodeTile_ of the three packed 4BPP controllers (Genesis, Master System,
\* GBA) on the same tile under the same mapping; their validateAndDisplay_
\* and getColorIndex_ are the same code.
EncodePacked ==
  /\ call.op = "encodePacked"
  /\ ret = Pending
  /\ LET px == TilePixels(CallFrames[1], call.dims[1], call.dims[2],
                          call.tileX * 8, call.tileY * 8)
         res == TileLookups(call.e, CallMap, px)
         slots == Seq1([i \in 1..64 |-> res[i].slot])
     IN  ret' = [slots   |-> slots,
                 genesis |-> Seq1(genesisEncodeTile_(slots)),
                 sms     |-> Seq1(smsEncodeTile_(slots)),
                 gba     |-> Seq1(gbaEncodeTile_(slots))]
  /\ UNCHANGED <<uiVars, call, registryVars, spriteVars, exportVars>>

\* Pixels and colour lists for a single lookup: mapped and unmapped
\* colours, one that is a single step of red away from a mapped one, and
\* alpha values on both sides of the threshold.
AlphaInputs == {0, 1, 127, 128, 129, 255}
LookupColors ==
  { ColorRGB(c) : c \in {1, 2, 5, 6} }
    \cup {<<0, 0, 0>>, <<ColorRGB(5)[1] + 1, ColorRGB(5)[2], ColorRGB(5)[3]>>}
LookupLists == {<<>>, <<5>>, <<1, 5>>, <<5, 2, 6>>, <<6, 5, 1, 2>>}

\* getColorIndex_ / getShadeIndex_ / the isSet test on one pixel.
GetColorIndex ==
  /\ call.op = "getColorIndex"
  /\ ret = Pending
  /\ ret' = LookupOf(call.e,
                     IF call.e = "msx1bpp" THEN <<>>
                     ELSE BuildColorMap(call.e, call.colors),
                     call.px)
  /\ UNCHANGED <<uiVars, call, registryVars, spriteVars, exportVars>>

\* Colour lists a controller validates: n distinct colours in first-seen
\* order, here n consecutive colour ids counted up or down from a first one.
MaxPaletteList == 16
ListSteps == {1, -1}
ColorRun(first, n, step) ==
  [i \in 1..n |-> 1 + ((first - 1 + step * (i - 1)) % NumColors)]

\* validateAndDisplay_ of a tile controller on a colour list (8x8 sprite).
ValidateAndDisplay ==
  /\ call.op = "validateAndDisplay"
  /\ ret = Pending
  /\ ret' = validateAndDisplay_(call.e, 8, 8,
                                ColorRun(call.first, call.n, call.step))
  /\ UNCHANGED <<uiVars, call, registryVars, spriteVars, exportVars>>

\* validateAndDisplay_ of a palette controller on a colour list, then its
\* generatePaletteData_ on the paletteColors that validation stored.
GeneratePaletteData ==
  /\ call.op = "generatePaletteData"
  /\ ret = Pending
  /\ LET pal == BuildPaletteColors(call.e,
                                    ColorRun(call.first, call.n, call.step))
     IN  ret' = [paletteColors |-> pal,
                 bytes |-> generatePaletteData_(call.e, pal)]
  /\ UNCHANGED <<uiVars, call, registryVars, spriteVars, exportVars>>

\* The lookups of the fixed-palette profiles, each with its profile.
LookupFns ==
  { <<"isValidColor", m>> : m \in DOMAIN FixedPalette }
    \cup { <<"getRegisterForColor", "nes">>, <<"getShadeForColor", "gameboy">>,
           <<"getIndexForColor", "msx">>, <<"getColorIndex_", "msx">>,
           <<"getCRAMForColor", "sms">>, <<"colorToCRAMByte", "sms">> }

\* Colours to look up: every colour of the four tables, each one also with
\* its red channel one step off, and a colour of the sprite ramp; written
\* in upper and in lower case.
LookupHexes ==
  LET table == UNION { { FixedPalette[m][i] : i \in 1..Len(FixedPalette[m]) } :
                         m \in DOMAIN FixedPalette }
      off == { <<(c[1] + 1) % 256, c[2], c[3]>> : c \in table }
  IN  { Hex(c, u) : c \in table \cup off \cup {ColorRGB(RampBase)},
                    u \in BOOLEAN }

\* One lookup of a fixed-palette profile (or of the MSX1 controller).
FixedLookup ==
  /\ call.op = "fixedLookup"
  /\ ret = Pending
  /\ ret' =
       CASE call.fn = "isValidColor" ->
              [valid |-> isValidColor(call.mode, call.hex)]
         [] call.fn = "getRegisterForColor" ->
              [value |-> getRegisterForColor(call.hex)]
         [] call.fn = "getShadeForColor" ->
              [value |-> getShadeForColor(call.hex)]
         [] call.fn = "getIndexForColor" ->
              [value |-> getIndexForColor(call.hex)]
         [] call.fn = "getColorIndex_" ->
              [value |-> msxGetColorIndex_(call.hex)]
         [] call.fn = "getCRAMForColor" ->
              [value |-> getCRAMForColor(call.hex)]
         [] call.fn = "colorToCRAMByte" ->
              [value |-> colorToCRAMByte(call.hex)]
  /\ UNCHANGED <<uiVars, call, registryVars, spriteVars, exportVars>>

\* validateColors of a profile on a colour list.
ValidateColors ==
  /\ call.op = "validateColors"
  /\ ret = Pending
  /\ ret' = Validate(call.validator, ColorList(call.n, call.place))
  /\ UNCHANGED <<uiVars, call, registryVars, spriteVars, exportVars>>

(***************************************************************************)
(* Initial states and specifications.                                      *)
(***************************************************************************)

IdlePure == call = [op |-> "none"] /\ ret = Pending

IdleRegistry == InitRegistryFields /\ savedModeId = NoSetting

\* No sprite is loaded.
IdleSprite ==
  /\ width = 0
  /\ height = 0
  /\ frames = <<>>
  /\ currentColors = <<>>

IdleExport ==
  /\ exporter = NoExporter
  /\ colorMap = <<>>
  /\ paletteColors = <<>>
  /\ buttonDisabled = FALSE
  /\ handoff = NoHandoff

\* No timer is pending, nothing has subscribed, no export panel and no
\* dialog is open, no colour has been picked.
IdleUi ==
  /\ timers = <<>>
  /\ subscribers = <<>>
  /\ panel = 0
  /\ selected = [primary |-> TRANSPARENT_COLOR,
                 secondary |-> TRANSPARENT_COLOR]
  /\ dialog = NoDialog
  /\ trace = <<>>

InitQuantize ==
  /\ IdleUi
  /\ call \in [op : {"quantize"}, space : ColorSpaces, rgb : QuantizeInputs]
  /\ ret = Pending
  /\ IdleRegistry /\ IdleSprite /\ IdleExport

NextQuantize == Quantize

SpecQuantize == InitQuantize /\ [][NextQuantize]_vars

InitMorton ==
  /\ IdleUi
  /\ call \in [op : {"morton"}, x : 0..(MAX_DIMENSION - 1),
               y : 0..(MAX_DIMENSION - 1)]
  /\ ret = Pending
  /\ IdleRegistry /\ IdleSprite /\ IdleExport

NextMorton == Morton

SpecMorton == InitMorton /\ [][NextMorton]_vars

InitTwiddle ==
  /\ IdleUi
  /\ call \in [op : {"twiddlePixels"}, width : TwiddleDims,
               height : TwiddleDims]
  /\ ret = Pending
  /\ IdleRegistry /\ IdleSprite /\ IdleExport

NextTwiddle == Twiddle

SpecTwiddle == InitTwiddle /\ [][NextTwiddle]_vars

InitDims ==
  /\ IdleUi
  /\ call \in [op : {"validateDimensions"}, width : DimInputs,
               height : DimInputs]
  /\ ret = Pending
  /\ IdleRegistry /\ IdleSprite /\ IdleExport

NextDims == ValidateDimensions

SpecDims == InitDims /\ [][NextDims]_vars

\* Every profile is registered, as after start-up.
StartedRegistry ==
  /\ modes_ = [id \in ExportModeIds |-> 1]
  /\ activeMode_ = <<"gameboy", 1>>
  /\ savedModeId = "gameboy"
  /\ settingsBound = 1
  /\ published = <<[previous |-> NoMode, current |-> <<"gameboy", 1>>]>>

InitEncode ==
  /\ IdleUi
  /\ \/ call \in [op : {"getColorIndex"}, e : Encoders,
                   px : { <<rgb[1], rgb[2], rgb[3], a>> :
                            rgb \in LookupColors, a \in AlphaInputs },
                   colors : LookupLists]
     \/ call \in [op : {"encodeTile"}, e : Encoders,
                   dims : {<<8, 8>>, <<12, 8>>, <<16, 16>>},
                   frameCount : {1}, k : PatternSizes, base : PatternBases,
                   map : MapKinds, tileX : 0..1, tileY : 0..1]
     \/ call \in [op : {"generateTileData"}, e : Encoders, dims : EncodeDims,
                   frameCount : EncodeFrameCounts, k : PatternSizes,
                   base : PatternBases, map : MapKinds]
  /\ ret = Pending
  /\ StartedRegistry /\ IdleSprite /\ IdleExport

NextEncode ==
  \/ GetColorIndex
  \/ EncodeTile
  \/ GenerateTileData

SpecEncode == InitEncode /\ [][NextEncode]_vars

InitPalette ==
  /\ IdleUi
  /\ call \in [op : {"validateAndDisplay"}, e : TileExporters,
               first : ColorIds, n : 0..MaxPaletteList, step : ListSteps]
  /\ ret = Pending
  /\ StartedRegistry /\ IdleSprite /\ IdleExport

NextPalette == ValidateAndDisplay

SpecPalette == InitPalette /\ [][NextPalette]_vars

\* The profiles the palette controllers ask the registry for.
PaletteModeIds == {"gbc", "genesis", "sms", "gba", "snes"}

\* Either every such profile is registered (start-up has run) or none is
\* (the controllers then use their own conversion).
InitPaletteData ==
  /\ IdleUi
  /\ call \in [op : {"generatePaletteData"}, e : PaletteEncoders,
               first : ColorIds, n : 0..MaxPaletteList, step : ListSteps]
  /\ ret = Pending
  /\ \/ /\ modes_ = [id \in PaletteModeIds |-> 1]
        /\ activeMode_ = <<"sms", 1>>
        /\ savedModeId = "sms"
        /\ settingsBound = 1
        /\ published = <<[previous |-> NoMode, current |-> <<"sms", 1>>]>>
     \/ IdleRegistry
  /\ IdleSprite /\ IdleExport

NextPaletteData == GeneratePaletteData

SpecPaletteData == InitPaletteData /\ [][NextPaletteData]_vars

\* The fixed-palette profiles are registered, as after start-up.
InitLookup ==
  /\ IdleUi
  /\ \E f \in LookupFns, hex \in LookupHexes :
       call = [op |-> "fixedLookup", fn |-> f[1], mode |-> f[2], hex |-> hex]
  /\ ret = Pending
  /\ modes_ = [id \in DOMAIN FixedPalette |-> 1]
  /\ activeMode_ = <<"msx", 1>>
  /\ savedModeId = "msx"
  /\ settingsBound = 1
  /\ published = <<[previous |-> NoMode, current |-> <<"msx", 1>>]>>
  /\ IdleSprite /\ IdleExport

NextLookup == FixedLookup

SpecLookup == InitLookup /\ [][NextLookup]_vars

InitPacked ==
  /\ IdleUi
  /\ call \in [op : {"encodePacked"}, e : {"genesis4bpp"},
               dims : {<<8, 8>>, <<12, 8>>, <<16, 16>>},
               frameCount : {1}, k : PackedSizes, base : PatternBases,
               map : MapKinds, tileX : 0..1, tileY : 0..1]
  /\ ret = Pending
  /\ StartedRegistry /\ IdleSprite /\ IdleExport

NextPacked == EncodePacked

SpecPacked == InitPacked /\ [][NextPacked]_vars

InitValidate ==
  /\ IdleUi
  /\ call \in [op : {"validateColors"}, validator : ValidatorIds,
               n : ListSizes, place : SentinelPlaces]
  /\ ret = Pending
  /\ IdleRegistry /\ IdleSprite /\ IdleExport

NextValidate == ValidateColors

SpecValidate == InitValidate /\ [][NextValidate]_vars

\* new ConsoleModeRegistry(), with any value stored under CONSOLE_MODE.
InitRegistry ==
  /\ IdleUi
  /\ InitRegistryFields
  /\ savedModeId \in SettingValues
  /\ IdlePure /\ IdleSprite /\ IdleExport

NextRegistry ==
  \/ \E id \in RegistryIds : Register(id)
  \/ RegistryInit
  \/ \E id \in RegistryIds \cup {UnknownId}, skipSave \in BOOLEAN :
       SetActiveMode(id, skipSave)
  \/ \E id \in RegistryIds \cup {UnknownId} : OnConsoleModeChange(id)

SpecRegistry == InitRegistry /\ [][NextRegistry]_vars

\* The application after start-up: every profile registered once, the
\* saved one made active by init, a sprite loaded and its colour list
\* computed, the export panel closed.
InitExport ==
  /\ IdleUi
  /\ IdlePure
  /\ \E m \in ExportModeIds :
       /\ modes_ = [id \in ExportModeIds |-> 1]
       /\ activeMode_ = <<m, 1>>
       /\ savedModeId = m
       /\ settingsBound = 1
       /\ published = <<[previous |-> NoMode, current |-> <<m, 1>>]>>
  /\ \E d \in Dims, k \in RampSizes, n \in FrameCounts :
       /\ width = d[1]
       /\ height = d[2]
       /\ frames = [f \in 1..n |-> Ramp(k, d[1], d[2])]
       /\ currentColors = FirstSeen([f \in 1..n |-> Ramp(k, d[1], d[2])])
  /\ IdleExport

NextExport ==
  \/ \E e \in Exporters : OpenExporter(e)
  \/ CloseExporter
  \/ \E p \in DrawCells, c \in DrawColors : Draw(p, c)
  \/ UpdateCurrentColors
  \/ ClickDownloadTiles
  \/ ClickDownloadPalette
  \/ \E format \in PvrFormats, twiddle \in BOOLEAN, includeGbix \in BOOLEAN :
       ClickDownloadPvr(format, twiddle, includeGbix)
  \/ HandlerReturns

SpecExport == InitExport /\ [][NextExport]_vars

\* The Genesis profile with its export tab about to be opened: "download
\* both" while the user keeps drawing.
InitBoth == InitExport /\ activeMode_[1] = "genesis"

NextBoth ==
  \/ OpenExporter("genesis4bpp")
  \/ \E p \in DrawCells, c \in DrawColors : Draw(p, c)
  \/ UpdateCurrentColors
  \/ ClickDownloadBoth
  \/ TimerFires
  \/ HandlerReturns

SpecBoth == InitBoth /\ [][NextBoth]_vars

\* Open/close cycles of the export panel while the sprite is edited.
InitPanel == InitExport /\ activeMode_[1] \in {"genesis", "dreamcast"}

NextPanel ==
  \/ \E e \in Exporters : OpenPanel(e)
  \/ ClosePanel
  \/ \E p \in DrawCells, c \in DrawColors : Draw(p, c)
  \/ UpdateCurrentColors

SpecPanel == InitPanel /\ [][NextPanel]_vars

\* A profile with three colours per sprite, a sprite within the limit (one
\* colour to spare, or none), its colour list computed, nothing picked yet.
SelectModeIds  == {"nes"}
SelectRamps    == {2, 3}
SelectCells    == {0, 1}
InitColors ==
  /\ IdlePure /\ IdleExport /\ IdleUi
  /\ \E m \in SelectModeIds :
       /\ modes_ = [id \in SelectModeIds |-> 1]
       /\ activeMode_ = <<m, 1>>
       /\ savedModeId = m
       /\ settingsBound = 1
       /\ published = <<[previous |-> NoMode, current |-> <<m, 1>>]>>
  /\ \E k \in SelectRamps :
       /\ width = 8
       /\ height = 8
       /\ frames = <<Ramp(k, 8, 8)>>
       /\ currentColors = FirstSeen(<<Ramp(k, 8, 8)>>)

NextColors ==
  \/ \E color \in PickColors, isPrimary \in BOOLEAN :
       SelectColor(color, isPrimary)
  \/ SwapColors
  \/ \E p \in SelectCells, isPrimary \in BOOLEAN : DrawSelected(p, isPrimary)
  \/ UpdateCurrentColors
  \/ \E oldColor \in ColorIds, destroysNow \in BOOLEAN :
       ClickColorCard(oldColor, destroysNow)
  \/ ClickCancel

SpecColors == InitColors /\ [][NextColors]_vars

(***************************************************************************)
(* Properties.                                                             *)
(***************************************************************************)

\* The distinct opaque colours the sprite holds now.
SpriteColors ==
  { frames[f][p] : f \in 1..Len(frames), p \in 0..(width * height - 1) }
    \ {0}

\* The dimension rule of the profile of exporter e: powers of two up to
\* MAX_DIMENSION for the texture profile, multiples of the 8-pixel tile
\* for the tile profiles.
DimensionRuleHolds(e, w, h) ==
  IF e = "dreamcastpvr"
  THEN /\ isPowerOfTwo(w) /\ isPowerOfTwo(h)
       /\ w <= MAX_DIMENSION /\ h <= MAX_DIMENSION
  ELSE w % 8 = 0 /\ h % 8 = 0

\* C1: whenever the sprite holds more distinct opaque colours than the
\* limit of the open tile/palette exporter, a download request is blocked
\* before any output: it hands over no tile file and no palette file and
\* encodes nothing.
C1_OverLimitBlocked ==
  (handoff.kind \in {"tiles", "palette"}
     /\ Cardinality(SpriteColors) > MaxColors(exporter))
  => (handoff.files = <<>> /\ handoff.encoded = {})

\* C2: in any tile data produced, two opaque pixels of the sprite with
\* different RGB values are never encoded to the same slot.
C2_NoMerge ==
  (handoff.kind = "tiles" /\ handoff.files # <<>>)
  => \A a \in handoff.encoded, b \in handoff.encoded :
       (IsOpaque(a[1]) /\ IsOpaque(b[1]) /\ a[1] # b[1]) => a[2] # b[2]

\* C3: when the width or height violates the dimension rule of the
\* exporter's profile, a download request is blocked entirely: nothing is
\* encoded, nothing is thrown half-way and no file is handed over.
C3_BadDimensionsBlocked ==
  (handoff.kind # "none" /\ ~DimensionRuleHolds(exporter, width, height))
  => (handoff.files = <<>> /\ handoff.encoded = {} /\ ~handoff.threw)

\* C4: after validation has passed (the colour list holds at most
\* maxColors colours and the controller's colorMap is the one built from
\* it), no opaque pixel met during encoding misses the colorMap, whatever
\* the order of drawing, colour-list updates and export requests was.
C4_NoLookupMiss ==
  (handoff.kind = "tiles"
     /\ Len(currentColors) <= MaxColors(exporter)
     /\ colorMap = BuildColorMap(exporter, currentColors))
  => \A a \in handoff.encoded :
       IsOpaque(a[1]) =>
         ColorInt(a[1][1], a[1][2], a[1][3], 255) \in DOMAIN colorMap

\* The colour list a validateColors call was given.
CallColors == ColorList(call.n, call.place)

\* C5: for every finite-limit profile, a list with exactly maxColors
\* distinct opaque colours validates as valid and a list with
\* maxColors + 1 validates as invalid.
C5_InclusiveBoundary ==
  (call.op = "validateColors" /\ ret # Pending
     /\ MaxColorsOf(call.validator) # Unlimited)
  => /\ OpaqueCount(CallColors) = MaxColorsOf(call.validator) => ret.valid
     /\ OpaqueCount(CallColors) = MaxColorsOf(call.validator) + 1
          => ~ret.valid

\* A finite-limit profile has rejected a list of maxColors + 1 colours
\* that also holds the transparency sentinel.
C5_Witness ==
  /\ call.op = "validateColors" /\ ret # Pending
  /\ call.validator = "gba8bpp" /\ call.place = "both"
  /\ call.n = MaxColorsOf("gba8bpp") + 1
  /\ ~ret.valid

\* C6: validateColors never counts the transparency sentinel: for every
\* profile, with a finite or an unlimited maxColors, the count it returns
\* is the number of non-transparent entries of the list.
C6_CountExcludesSentinel ==
  (call.op = "validateColors" /\ ret # Pending)
  => ret.count = OpaqueCount(CallColors)

C8_Limit == Min(Len(currentColors), MaxColors(exporter))
C8_Slot(i) ==
  LET rgb == ColorRGB(currentColors[i])
      isShade == \E g \in 1..Len(GB_PALETTE_DATA) :
                   GB_PALETTE_DATA[g].color = rgb
  IN  IF exporter = "gb2bpp" /\ HasMode("gameboy") /\ isShade
      THEN (CHOOSE g \in 1..Len(GB_PALETTE_DATA) :
              GB_PALETTE_DATA[g].color = rgb) - 1
      ELSE i
C8_FreshMap ==
  LET keyOf(i) == colorToInt(ColorRGB(currentColors[i]))
  IN  [k \in {ZeroKey} \cup { keyOf(i) : i \in 1..C8_Limit } |->
         IF k = ZeroKey THEN 0
         ELSE C8_Slot(CHOOSE i \in 1..C8_Limit : keyOf(i) = k)]
C8_FreshPalette ==
  [i \in 1..PaletteSlots(exporter) |->
     IF i = 1 THEN Null
     ELSE IF i - 1 <= C8_Limit THEN ColorRGB(currentColors[i - 1])
     ELSE Black]

C9_QuantizeIdempotent ==
  (call.op = "quantize" /\ ret # Pending)
  => /\ ret.twice = ret.once
     /\ \A i \in 1..3 :
          ret.once[i] = SnapFormula(BitsOf(call.space), call.rgb[i])

\* A colour that quantization changed in every channel.
C9_Witness ==
  /\ call.op = "quantize" /\ ret # Pending
  /\ \A i \in 1..3 : ret.once[i] # call.rgb[i]

\* C10: deinterleaveEven(mortonCode(x, y)) = x and
\* deinterleaveOdd(mortonCode(x, y)) = y for all 0 <= x, y < 1024.
C10_MortonRoundTrip ==
  (call.op = "morton" /\ ret # Pending)
  => (ret.x = call.x /\ ret.y = call.y)

\* The far corner of the largest texture: all twenty bits of the code set.
C10_Witness ==
  /\ call.op = "morton" /\ ret # Pending
  /\ call.x = MAX_DIMENSION - 1 /\ call.y = MAX_DIMENSION - 1
  /\ ret.code = MAX_DIMENSION * MAX_DIMENSION - 1

\* A twiddlePixels call on a width x height buffer has returned, and both
\* sides are powers of two.
TwiddleDone ==
  /\ call.op = "twiddlePixels" /\ ret # Pending
  /\ isPowerOfTwo(call.width) /\ isPowerOfTwo(call.height)

\* C11: for square and rectangular power-of-two (w, h), twiddlePixels is a
\* permutation of the w * h buffer positions: the output has w * h
\* elements and every input index appears in it exactly once, so the
\* input can be recovered from the output.
C11_TwiddlePermutation ==
  TwiddleDone =>
    LET n == call.width * call.height
    IN  /\ Len(ret.out) = n
        /\ \A v \in 0..(n - 1) :
             Cardinality({ o \in 1..n : ret.out[o] = v }) = 1

\* A buffer 16 wide (16x8 or 16x16) was twiddled and came back reordered,
\* with the pixel below the first one in third place.
C11_Witness ==
  /\ TwiddleDone
  /\ call.width = 16 /\ call.height \in {8, 16}
  /\ ret.out[3] = 16
  /\ ret.out # Sequential(call.width * call.height)

\* C12: for a rectangular power-of-two texture the output is the sequence
\* of the square blocks of side min(width, height), in raster order, and
\* position i of a block holds the pixel at local
\* (deinterleaveEven(i), deinterleaveOdd(i)) of that block, which is the
\* Morton order of the block.
C12_BlocksInRasterOrder ==
  (TwiddleDone /\ call.width # call.height) =>
    LET w == call.width
        h == call.height
        size == Min(w, h)
        across == w \div size
    IN  /\ \A o \in 0..(w * h - 1) :
             LET block == o \div (size * size)
                 i == o % (size * size)
                 x == (block % across) * size + deinterleaveEven(i)
                 y == (block \div across) * size + deinterleaveOdd(i)
             IN  ret.out[o + 1] = y * w + x
        /\ \A x \in 0..(w - 1), y \in 0..(h - 1) :
             LET block == (y \div size) * across + (x \div size)
             IN  ret.out[block * size * size
                         + mortonCode(x % size, y % size) + 1] = y * w + x

\* The 16x8 buffer of 128 sequential values: the left block ends with its
\* corner pixel (7, 7) and the right block starts with pixel (8, 0).
C12_Witness ==
  /\ TwiddleDone
  /\ call.width = 16 /\ call.height = 8
  /\ ret.out[64] = 7 * 16 + 7
  /\ ret.out[65] = 8
  /\ ret.out[67] = 16 + 8

\* DreamcastConstants.MIN_DIMENSION
MIN_DIMENSION == 8

\* An axis value the texture profile allows: an exact power of two within
\* [MIN_DIMENSION, MAX_DIMENSION].
AxisAllowed(n) ==
  isPowerOfTwo(n) /\ n >= MIN_DIMENSION /\ n <= MAX_DIMENSION

\* The issues a validateDimensions call reported for one axis.
IssuesFor(field) ==
  { i \in 1..Len(ret.issues) : ret.issues[i].field = field }

\* C13: validateDimensions reports no issue exactly when width and height
\* are each an exact power of two within [8, 1024].
C13_NoIssueIffAllowed ==
  (call.op = "validateDimensions" /\ ret # Pending)
  => (ret.issues = <<>>
        <=> (AxisAllowed(call.width) /\ AxisAllowed(call.height)))

\* C14: validateDimensions reports exactly one issue for each axis that
\* fails and none for an axis that passes, every issue carries the next
\* power of two of its axis as a suggestion, and the result holds nothing
\* but issues (no rounded dimensions).
C14_OneIssuePerAxis ==
  (call.op = "validateDimensions" /\ ret # Pending)
  => /\ \A a \in {"width", "height"} :
          LET n == IF a = "width" THEN call.width ELSE call.height
              failing == ~isPowerOfTwo(n) \/ n > MAX_DIMENSION
          IN  /\ Cardinality(IssuesFor(a)) = (IF failing THEN 1 ELSE 0)
              /\ \A i \in IssuesFor(a) :
                   /\ "suggestion" \in DOMAIN ret.issues[i]
                   /\ ret.issues[i].suggestion = nextPowerOfTwo(n)
     /\ DOMAIN ret = {"issues"}

\* The bits per pixel of the format of each encoder, and the byte count
\* the format declares for an 8x8 tile.
BitsPerPixel(e) ==
  CASE e = "msx1bpp"                      -> 1
    [] e \in {"genesis4bpp", "snes4bpp"} -> 4
    [] OTHER                              -> 2
DeclaredBytes(e) == (64 * BitsPerPixel(e)) \div 8

\* C15: every encodeTile call returns exactly the byte count its format
\* declares (1bpp: 8, 2bpp: 16, 4bpp: 32), each element a byte, whatever
\* the pixels are (transparent, opaque, past the end of the image) and
\* whatever colorMap holds.
C15_FixedTileLength ==
  (call.op = "encodeTile" /\ ret # Pending)
  => /\ Len(ret.tile) = DeclaredBytes(call.e)
     /\ \A i \in 1..Len(ret.tile) : ret.tile[i] \in 0..255

\* A 4bpp tile that lies half outside a 12x8 image was encoded under an
\* empty colorMap: every opaque pixel missed the map.
C15_Witness ==
  /\ call.op = "encodeTile" /\ ret # Pending
  /\ call.e = "snes4bpp" /\ call.map = "none" /\ call.k = 16
  /\ call.dims = <<12, 8>> /\ call.tileX = 1 /\ call.tileY = 0
  /\ ret.warned
  /\ Len(ret.tile) = 32

\* A generate...Data_ call has returned a buffer.
TileDataReturned ==
  call.op = "generateTileData" /\ ret # Pending /\ ~ret.threw

\* The bytes encodeTile_ gives for the tile at column tx, row ty of frame
\* f (all from 0) of the sprite of the call.
TileBytesAt(f, ty, tx) ==
  LET px == TilePixels(CallFrames[f + 1], call.dims[1], call.dims[2],
                       tx * 8, ty * 8)
      res == TileLookups(call.e, CallMap, px)
  IN  Seq1(encodeTile_(call.e, [i \in 1..64 |-> res[i].slot]))

\* C16: the tile output is the concatenation of the frames in index order
\* and, inside a frame, of the tiles row by row, left to right: the tile
\* at frame f, row ty, column tx starts at
\* ((f * tilesY + ty) * tilesX + tx) * bytesPerTile, and the output is
\* frameCount * tilesX * tilesY * bytesPerTile bytes long.
C16_RowMajorTiles ==
  TileDataReturned =>
    LET tilesX == call.dims[1] \div 8
        tilesY == call.dims[2] \div 8
        bpt == DeclaredBytes(call.e)
    IN  /\ call.dims[1] % 8 = 0 /\ call.dims[2] % 8 = 0
        /\ Len(ret.bytes) = call.frameCount * tilesX * tilesY * bpt
        /\ \A f \in 0..(call.frameCount - 1), ty \in 0..(tilesY - 1),
              tx \in 0..(tilesX - 1) :
             LET start == ((f * tilesY + ty) * tilesX + tx) * bpt
             IN  SubSeq(ret.bytes, start + 1, start + bpt)
                   = TileBytesAt(f, ty, tx)

\* Two frames of 3 x 2 tiles were encoded, and no two of the twelve tiles
\* have the same bytes.
C16_Witness ==
  /\ TileDataReturned
  /\ call.dims = <<24, 16>> /\ call.frameCount = 2 /\ call.e = "chr"
  /\ call.k = 3 /\ call.map = "fresh"
  /\ Len(ret.bytes) = 12 * 16
  /\ \A a \in 0..11, b \in 0..11 :
       a # b => SubSeq(ret.bytes, a * 16 + 1, a * 16 + 16)
                  # SubSeq(ret.bytes, b * 16 + 1, b * 16 + 16)

\* The colorMap a single lookup ran under.
LookupMap == BuildColorMap(call.e, call.colors)
LookupKey == ColorInt(call.px[1], call.px[2], call.px[3], 255)

\* C17: in every tile encoder a pixel with alpha < 128 gets slot 0
\* whatever its RGB is, and a pixel with alpha >= 128 gets the slot the
\* mapping holds for exactly its RGB (for the 1bpp encoder, whose single
\* colour has slot 1, every such pixel gets slot 1).
C17_AlphaThenExactLookup ==
  (call.op = "getColorIndex" /\ ret # Pending)
  => /\ call.px[4] < 128 => ret.slot = 0
     /\ (call.px[4] >= 128 /\ call.e # "msx1bpp"
           /\ LookupKey \in DOMAIN LookupMap)
          => ret.slot = LookupMap[LookupKey]
     /\ (call.px[4] >= 128 /\ call.e = "msx1bpp") => ret.slot = 1

\* A pixel of a mapped colour (slot 2 of the list) with alpha 127 got
\* slot 0, under the Genesis encoder.
C17_Witness ==
  /\ call.op = "getColorIndex" /\ ret # Pending
  /\ call.e = "genesis4bpp"
  /\ call.px[4] = 127
  /\ LookupKey \in DOMAIN LookupMap
  /\ LookupMap[LookupKey] = 2
  /\ ret.slot = 0

\* The opaque pixels a generate...Data_ call met whose colour the
\* colorMap of the call does not hold (the 1bpp encoder has no colorMap).
Misses ==
  IF call.e = "msx1bpp" THEN {}
  ELSE { a \in ret.encoded :
           /\ IsOpaque(a[1])
           /\ ColorInt(a[1][1], a[1][2], a[1][3], 255) \notin DOMAIN CallMap }

ListValidated == ColorRun(call.first, call.n, call.step)

\* C19: slots follow the first-seen order of the list: in every exporter,
\* for a list c of n <= maxColors colours, the colour at position i
\* (from 0) gets slot i + 1.
C19_SlotsInFirstSeenOrder ==
  (call.op = "validateAndDisplay" /\ ret # Pending
     /\ call.n <= MaxColors(call.e))
  => \A i \in 1..call.n :
       ret.colorMap[colorToInt(ColorRGB(ListValidated[i]))] = i

\* C20: slot 0 is reserved for transparency in every mapping: no opaque
\* colour of the list is assigned slot 0.
C20_SlotZeroReserved ==
  (call.op = "validateAndDisplay" /\ ret # Pending)
  => \A key \in DOMAIN ret.colorMap :
       key # ZeroKey => ret.colorMap[key] # 0

\* A generatePaletteData_ call has returned.
PaletteDataReturned == call.op = "generatePaletteData" /\ ret # Pending

\* The bytes of palette entry i (from 0) of the returned buffer.
PaletteEntry(i) ==
  LET bpe == BytesPerEntry(call.e)
  IN  SubSeq(ret.bytes, i * bpe + 1, (i + 1) * bpe)

\* C21: every palette buffer has the fixed length of its profile (slot
\* count times bytes per entry), its entry 0 is all zero bytes, and every
\* entry beyond the colours of the sprite is all zero bytes.
C21_PaletteZeroPadded ==
  PaletteDataReturned
  => LET slots == PaletteSlots(call.e)
         bpe == BytesPerEntry(call.e)
         zero == [k \in 1..bpe |-> 0]
     IN  /\ Len(ret.bytes) = slots * bpe
         /\ PaletteEntry(0) = zero
         /\ \A i \in (call.n + 1)..(slots - 1) : PaletteEntry(i) = zero

\* A Master System palette of two colours: 16 bytes, the two colours in
\* entries 1 and 2, zero bytes from entry 3 on.
C21_Witness ==
  /\ PaletteDataReturned
  /\ call.e = "sms4bpp" /\ call.n = 2
  /\ Len(ret.bytes) = 16
  /\ ret.bytes[2] # 0 /\ ret.bytes[3] # 0
  /\ ret.bytes[4] = 0 /\ ret.bytes[16] = 0

\* A lookup of a fixed-palette profile has returned.
LookupReturned == call.op = "fixedLookup" /\ ret # Pending

\* The colour looked up is a colour of the profile's table, in any case.
InFixedTable ==
  \E i \in 1..Len(FixedPalette[call.mode]) :
    FixedPalette[call.mode][i] = call.hex.rgb

\* C22: for the fixed-palette profiles (NES, Game Boy, MSX1, Master
\* System) membership and table lookups match hex colours exactly and
\* case-insensitively: a table colour is found, and a colour matching no
\* table entry is reported as not in the palette (false / null), never
\* converted by arithmetic or by a default to some table value.
C22_ExactMatchOnly ==
  LookupReturned
  => IF call.fn = "isValidColor" THEN ret.valid = InFixedTable
     ELSE (ret.value # NoEntry) = InFixedTable

\* The two nibbles of a byte exchanged.
NibbleSwap(b) == Shl(BitAnd(b, 15), 4) + Shr(b, 4)

\* C23: the two packed 4bpp formats keep opposite nibble orders: for each
\* horizontally adjacent pixel pair Genesis and Master System emit
\* (slotLeft << 4) | slotRight and GBA emits (slotRight << 4) | slotLeft, so
\* for the same tile and mapping every GBA byte is the nibble swap of the
\* Genesis byte at the same position.
C23_OppositeNibbleOrder ==
  (call.op = "encodePacked" /\ ret # Pending)
  => \A y \in 0..7, xPair \in 0..3 :
       LET slotLeft == ret.slots[y * 8 + 2 * xPair + 1]
           slotRight == ret.slots[y * 8 + 2 * xPair + 2]
           k == y * 4 + xPair + 1
       IN  /\ ret.genesis[k] = slotLeft * 16 + slotRight
           /\ ret.sms[k] = slotLeft * 16 + slotRight
           /\ ret.gba[k] = slotRight * 16 + slotLeft
           /\ ret.gba[k] = NibbleSwap(ret.genesis[k])

\* A tile under a full mapping of 15 colours: some pixel pair holds two
\* different opaque slots, so its Genesis and GBA bytes differ, and slot 15
\* occurs.
C23_Witness ==
  /\ call.op = "encodePacked" /\ ret # Pending
  /\ \E k \in 1..32 :
       /\ ret.genesis[k] \div 16 # 0 /\ ret.genesis[k] % 16 # 0
       /\ ret.genesis[k] \div 16 # ret.genesis[k] % 16
       /\ ret.gba[k] # ret.genesis[k]
  /\ \E i \in 1..64 : ret.slots[i] = 15

\* An encodeTile_ call of the NES CHR controller has returned.
ChrTileReturned ==
  call.op = "encodeTile" /\ call.e = "chr" /\ ret # Pending

\* Bit b of byte v, by division.
BitAt(v, b) == (v \div (2 ^ b)) % 2

\* C24: the NES 2bpp planar encoder writes, for the pixel at tile row y and
\* column x, bit (7 - x) of byte y as bit 0 of the pixel's slot and bit
\* (7 - x) of byte 8 + y as bit 1 of the slot.
C24_ChrPlanes ==
  ChrTileReturned
  => /\ Len(ret.tile) = 16
     /\ \A y \in 0..7, x \in 0..7 :
          LET slot == ret.slots[y * 8 + x + 1]
          IN  /\ BitAt(ret.tile[y + 1], 7 - x) = slot % 2
              /\ BitAt(ret.tile[8 + y + 1], 7 - x) = (slot \div 2) % 2

\* Pixel (0, 0) in slot 1: bit 7 of byte 0 is 1 and bit 7 of byte 8 is 0;
\* and the tile also holds pixels in slots 2 and 3.
C24_Witness ==
  /\ ChrTileReturned
  /\ ret.slots[1] = 1
  /\ BitAt(ret.tile[1], 7) = 1 /\ BitAt(ret.tile[9], 7) = 0
  /\ \E i \in 1..64 : ret.slots[i] = 2
  /\ \E i \in 1..64 : ret.slots[i] = 3

\* C25: every change of the active mode publishes exactly one
\* CONSOLE_MODE_CHANGED event whose previous and current fields are the old
\* and the new mode, and no event is published without a change; this also
\* holds when the settings write inside setActiveMode re-enters
\* setActiveMode through the USER_SETTINGS_CHANGED handlers, a chain that
\* ends with the handlers finding the mode already active.
C25_OneEventPerChange ==
  [][/\ activeMode_' # activeMode_ =>
          published' = Append(published, [previous |-> activeMode_,
                                          current  |-> activeMode_'])
     /\ published' # published => activeMode_' # activeMode_]_vars

\* Two registry handlers are subscribed and the mode has changed from one
\* profile to another whose id is the stored setting.
C25_Witness ==
  /\ settingsBound = 2
  /\ Len(published) >= 2
  /\ published[Len(published)].previous # NoMode
  /\ published[Len(published)].previous[1] # activeMode_[1]
  /\ published[Len(published)].current = activeMode_
  /\ savedModeId = activeMode_[1]

\* The three things a setActiveMode call may change.
RegistryOutcome == <<activeMode_, savedModeId, published>>

C27_SameMapping ==
  \A i \in 1..Len(DownloadsOf("palette")) :
    /\ DownloadsOf("palette")[i].colorMap = DownloadsOf("tiles")[i].colorMap
    /\ DownloadsOf("palette")[i].paletteColors
         = DownloadsOf("tiles")[i].paletteColors

\* C30: subscriptions do not accumulate: every subscribed handler belongs
\* to the export controller that is open, so a destroyed controller handles
\* no CONSOLE_MODE_CHANGED or CURRENT_COLORS_UPDATED event and at most the
\* three handlers of one panel are subscribed.
C30_NoDeadSubscribers ==
  /\ \A i \in DOMAIN subscribers : subscribers[i].fn.boundTo = panel
  /\ Len(subscribers) <= 3

\* C28: under a profile with finite maxColors, selecting, swapping,
\* replacing and drawing with the selected colours never brings the
\* sprite's distinct colours above maxColors.
C28_WithinLimit ==
  ModeConfig[activeMode_[1]].maxColors # Unlimited
    => Cardinality(SpriteColors) <= ModeConfig[activeMode_[1]].maxColors

\* C29: a click that takes the replace-color dialog down calls exactly one
\* callback: onColorSelected with (clicked colour, the dialog's new colour,
\* isPrimary) after the dialog was closed, or onCancel before it is closed.
C29_CallbackOnce ==
  [][(dialog.open /\ ~dialog'.open)
       => /\ Len(trace') = Len(trace) + 1
          /\ LET c == trace'[Len(trace')]
             IN  \/ /\ c.fn = "onColorSelected"
                    /\ \E i \in DOMAIN dialog.cards :
                         c.args = <<dialog.cards[i], dialog.newColor,
                                    dialog.isPrimary>>
                    /\ ~c.dialogOpen
                 \/ /\ c.fn = "onCancel"
                    /\ c.args = <<dialog.isPrimary>>
                    /\ c.dialogOpen]_vars
====
